---------------------------- MODULE Spec2Model ----------------------------
(***************************************************************************)
(* A model of jolecule's structure-file parsers (PdbParser and CifParser)  *)
(* driving the structure store ("soup").  A text is a sequence of          *)
(* one-character strings; every column slice, token split and numeric      *)
(* conversion is computed on those characters the way the JavaScript does. *)
(* The views handlers of the server and the AtomLabelsWidget of the        *)
(* display are modelled beside them, each with its own specification.      *)
(***************************************************************************)
EXTENDS Integers, Sequences, FiniteSets, TLC

VARIABLES
    parser,                 \* "pdb" | "cif" | ...: which component is running
    pdbText,                \* the text handed to parsePdbData
    pc,                     \* position of the running parsePdbData call
    iModel,                 \* PdbParser.parsePdbData: loop index over models
    iLine,                  \* loop index of the line loop being executed
    error,                  \* this.error
    parsingError,           \* this.parsingError
    hasSecondaryStructure,  \* this.hasSecondaryStructure
    nextResNum,             \* CifParser.parseAtomLines local
    lastChain,              \* CifParser.parseAtomLines local
    lastEntity,             \* CifParser.parseAtomLines local
    isLoop,                 \* isHelixLoop / isSheetLoop of the running pass
    rec,                    \* chain / resNumEnd / ss code of the record in hand
    pending,                \* indices the for-of over findResidueIndices has left
    iRes,                   \* residue proxy cursor (residue.iRes)
    structures,             \* soup: pushed structures, in order
    atoms,                  \* soup: addAtom calls, in order
    residues,               \* soup: residue buckets, in insertion order
    calls,                  \* history of the store calls made by the parser
    pdb,                    \* handlers: path of the structure file of the request
    filename,               \* handlers: the views file getViewsJson gave for it
    views,                  \* handlers: the views of the reply
    viewFiles,              \* the views files on disk: file name to view ids
    labels,                 \* widget: scene.current_view.labels
    popups,                 \* widget: AtomLabelsWidget.popups
    clicked,                \* widget: position of the popup the last click hit
    thrown                  \* widget: the last handler ended in a TypeError

parserVars == <<parser, pdbText, pc, iModel, iLine, error, parsingError,
                hasSecondaryStructure>>
cifVars == <<nextResNum, lastChain, lastEntity, isLoop>>
walkVars == <<rec, pending, iRes>>
soupVars == <<structures, atoms, residues, calls>>
viewsVars == <<pdb, filename, views, viewFiles>>
widgetVars == <<labels, popups, clicked, thrown>>
vars == <<parserVars, cifVars, walkVars, soupVars, viewsVars, widgetVars>>

---------------------------------------------------------------------------
(* JavaScript values.  A number is [t |-> "num", v |-> n]; NaN, null and   *)
(* undefined are tagged records of the same shape, so that any two values  *)
(* can be compared.  Floats are kept in thousandths.                       *)

Num(n) == [t |-> "num", v |-> n]
NaN == [t |-> "NaN", v |-> 0]
Null == [t |-> "null", v |-> 0]
UndefinedNum == [t |-> "undefined", v |-> 0]

\* undefined where a string is expected: no string of characters equals it
Undefined == <<"undefined">>

IsNum(a) == a.t = "num"

\* a + 1: null converts to 0, NaN and undefined give NaN
JsAddOne(a) ==
    IF a.t \in {"NaN", "undefined"} THEN NaN ELSE Num(a.v + 1)

\* a <= b: false as soon as one side is NaN or undefined (null converts to 0)
JsLessEq(a, b) ==
    /\ a.t \notin {"NaN", "undefined"}
    /\ b.t \notin {"NaN", "undefined"}
    /\ a.v <= b.v

\* a === b on numbers: NaN is not equal to itself
JsStrictEqNum(a, b) ==
    /\ a.t = b.t
    /\ a.t # "NaN"
    /\ a.v = b.v

---------------------------------------------------------------------------
(* Strings as sequences of characters.                                     *)

DigitChars == <<"0", "1", "2", "3", "4", "5", "6", "7", "8", "9">>

IsDigit(c) == \E i \in 1..10 : DigitChars[i] = c

DigitVal(c) == (CHOOSE i \in 1..10 : DigitChars[i] = c) - 1

IsSpace(c) == c \in {" ", "\t", "\r", "\n"}

Min(a, b) == IF a <= b THEN a ELSE b

Max(a, b) == IF a >= b THEN a ELSE b

\* String.prototype.substr(start, length), start counted from 0
substr(s, start, length) ==
    IF start >= Len(s) THEN <<>>
    ELSE SubSeq(s, start + 1, Min(start + length, Len(s)))

\* String.prototype.substring(start) / slice(start)
substring(s, start) ==
    IF start >= Len(s) THEN <<>> ELSE SubSeq(s, start + 1, Len(s))

\* s[i]: the character at index i (from 0), undefined past the end
charAt(s, i) == IF i < Len(s) THEN <<s[i + 1]>> ELSE Undefined

startsWith(s, prefix) ==
    /\ Len(prefix) <= Len(s)
    /\ SubSeq(s, 1, Len(prefix)) = prefix

includes(s, sub) ==
    \E i \in 0..(Len(s) - Len(sub)) : SubSeq(s, i + 1, i + Len(sub)) = sub

\* _.trim: whitespace removed at both ends
trim(s) ==
    LET keep == {i \in 1..Len(s) : ~IsSpace(s[i])}
    IN  IF keep = {} THEN <<>>
        ELSE SubSeq(s, CHOOSE i \in keep : \A j \in keep : i <= j,
                       CHOOSE i \in keep : \A j \in keep : i >= j)

\* text.replace(/\d+/, ''): the first run of digits is deleted, no other
deleteNumbers(text) ==
    LET digits == {i \in 1..Len(text) : IsDigit(text[i])}
    IN  IF digits = {} THEN text
        ELSE LET first == CHOOSE i \in digits : \A j \in digits : i <= j
                 after == {i \in first..Len(text) : ~IsDigit(text[i])}
                 stop == IF after = {} THEN Len(text) + 1
                         ELSE CHOOSE i \in after : \A j \in after : i <= j
             IN  SubSeq(text, 1, first - 1) \o SubSeq(text, stop, Len(text))

removeQuotes(s) ==
    LET n == Len(s)
    IN  IF n >= 1 /\ s[1] = "\"" /\ s[n] = "\"" THEN SubSeq(s, 2, n - 1)
        ELSE IF n >= 1 /\ s[1] = "'" /\ s[n] = "'" THEN SubSeq(s, 2, n - 1)
        ELSE s

RECURSIVE DigitsValue(_, _)
\* value of a run of digits, acc being the value of the digits already read
DigitsValue(s, acc) ==
    IF s = <<>> THEN acc
    ELSE DigitsValue(Tail(s), 10 * acc + DigitVal(Head(s)))

\* the longest prefix of s made of digits
DigitPrefix(s) ==
    LET stop == {i \in 1..Len(s) : ~IsDigit(s[i])}
    IN  IF stop = {} THEN s
        ELSE SubSeq(s, 1, (CHOOSE i \in stop : \A j \in stop : i <= j) - 1)

\* leading whitespace removed (what parseInt and parseFloat skip)
SkipSpace(s) ==
    LET keep == {i \in 1..Len(s) : ~IsSpace(s[i])}
    IN  IF keep = {} THEN <<>>
        ELSE SubSeq(s, CHOOSE i \in keep : \A j \in keep : i <= j, Len(s))

\* parseInt(s): optional sign, then digits; NaN when no digit follows
parseInt(s) ==
    LET t == SkipSpace(s)
        neg == t # <<>> /\ Head(t) = "-"
        body == IF t # <<>> /\ Head(t) \in {"-", "+"} THEN Tail(t) ELSE t
        ds == DigitPrefix(body)
    IN  IF ds = <<>> THEN NaN
        ELSE Num(IF neg THEN 0 - DigitsValue(ds, 0) ELSE DigitsValue(ds, 0))

\* parseInt(undefined) is NaN
parseIntOf(tok) == IF tok = Undefined THEN NaN ELSE parseInt(tok)

\* parseFloat(s), in thousandths: sign, digits, optional fraction
parseFloat(s) ==
    LET t == SkipSpace(s)
        neg == t # <<>> /\ Head(t) = "-"
        body == IF t # <<>> /\ Head(t) \in {"-", "+"} THEN Tail(t) ELSE t
        whole == DigitPrefix(body)
        rest == SubSeq(body, Len(whole) + 1, Len(body))
        frac == IF rest # <<>> /\ Head(rest) = "." THEN DigitPrefix(Tail(rest))
                ELSE <<>>
        frac3 == SubSeq(frac \o <<"0", "0", "0">>, 1, 3)
        mag == 1000 * DigitsValue(whole, 0) + DigitsValue(frac3, 0)
    IN  IF whole = <<>> /\ frac = <<>> THEN NaN
        ELSE Num(IF neg THEN 0 - mag ELSE mag)

parseFloatOf(tok) == IF tok = Undefined THEN NaN ELSE parseFloat(tok)

RECURSIVE Split(_)
\* text.split(/\r?\n/): never empty, the empty text gives one empty line
Split(text) ==
    LET nl == {i \in 1..Len(text) : text[i] = "\n"}
    IN  IF nl = {} THEN <<text>>
        ELSE LET i == CHOOSE k \in nl : \A j \in nl : k <= j
                 cut == IF i > 1 /\ text[i - 1] = "\r" THEN i - 2 ELSE i - 1
             IN  <<SubSeq(text, 1, cut)>> \o Split(SubSeq(text, i + 1, Len(text)))

RECURSIVE SplitTokens(_)
\* line.split(/[ ,]+/): an empty token only at the very start or end
SplitTokens(line) ==
    LET sep == {i \in 1..Len(line) : line[i] \in {" ", ","}}
    IN  IF sep = {} THEN <<line>>
        ELSE LET i == CHOOSE k \in sep : \A j \in sep : k <= j
                 more == {k \in i..Len(line) : line[k] \notin {" ", ","}}
                 next == IF more = {} THEN Len(line) + 1
                         ELSE CHOOSE k \in more : \A j \in more : k <= j
             IN  <<SubSeq(line, 1, i - 1)>>
                     \o SplitTokens(SubSeq(line, next, Len(line)))

\* tokens[i], i from 0, undefined past the end
tokenAt(tokens, i) == IF i < Len(tokens) THEN tokens[i + 1] ELSE Undefined

---------------------------------------------------------------------------
(* The structure store (soup).  Its code is not part of the parser files;  *)
(* it is modelled from its interface: structures, atoms and residue        *)
(* buckets in insertion order, a cursor over the residues.                 *)

SsUnset == "-"

\* soup.iStructure: index of the structure pushed last
SoupIStructure == Len(structures) - 1

\* pushStructureId(id, title)
SoupPushStructureId(id, title) ==
    Append(structures, [id |-> id, title |-> title])

\* addAtom: a new residue bucket opens when chain, resNum or insCode differ
\* from the residue open in the current structure
SoupOpensResidue(a) ==
    \/ residues = <<>>
    \/ LET last == residues[Len(residues)]
       IN  \/ last.iStructure # a.iStructure
           \/ last.chain # a.chain
           \/ ~JsStrictEqNum(last.resNum, a.resNum)
           \/ last.insCode # a.insCode

SoupAddResidue(a) ==
    IF SoupOpensResidue(a)
    THEN Append(residues, [iStructure |-> a.iStructure, chain |-> a.chain,
                           resNum |-> a.resNum, insCode |-> a.insCode,
                           ss |-> SsUnset])
    ELSE residues

\* variant: a read past the last residue gives the last residue again
ResidueAt_Clamped(i) ==
    IF i >= 0 /\ i < Len(residues) THEN residues[i + 1]
    ELSE IF Len(residues) > 0 THEN residues[Len(residues)]
    ELSE [iStructure |-> 0 - 1, chain |-> Undefined, resNum |-> UndefinedNum,
          insCode |-> Undefined, ss |-> SsUnset]

\* the residue proxy read at cursor i: fields are undefined past the end
ResidueAt(i) ==
    IF i >= 0 /\ i < Len(residues) THEN residues[i + 1]
    ELSE [iStructure |-> 0 - 1, chain |-> Undefined, resNum |-> UndefinedNum,
          insCode |-> Undefined, ss |-> SsUnset]

RECURSIVE SoupFindFrom(_, _, _, _)
SoupFindFrom(i, iStructure, chain, resNum) ==
    IF i >= Len(residues) THEN <<>>
    ELSE LET r == residues[i + 1]
             hit == /\ r.iStructure = iStructure
                    /\ r.chain = chain
                    /\ JsStrictEqNum(r.resNum, resNum)
         IN  (IF hit THEN <<i>> ELSE <<>>)
                 \o SoupFindFrom(i + 1, iStructure, chain, resNum)

\* findResidueIndices(iStructure, chain, resNum): matching indices, ascending
SoupFindResidueIndices(iStructure, chain, resNum) ==
    SoupFindFrom(0, iStructure, chain, resNum)

---------------------------------------------------------------------------
(* PdbParser                                                               *)

PdbId == "1abc"

Str_ATOM == <<"A", "T", "O", "M">>
Str_HETATM == <<"H", "E", "T", "A", "T", "M">>
Str_END == <<"E", "N", "D">>
Str_EXPDTA == <<"E", "X", "P", "D", "T", "A">>
Str_NMR == <<"N", "M", "R">>
Str_HELIX == <<"H", "E", "L", "I", "X">>
Str_SHEET == <<"S", "H", "E", "E", "T">>
Str_TITLE == <<"T", "I", "T", "L", "E">>

\* variant: HETATM lines are not atom lines
isAtomLine_AtomOnly(line) == substr(line, 0, 4) = Str_ATOM

isAtomLine(line) ==
    substr(line, 0, 4) = Str_ATOM \/ substr(line, 0, 6) = Str_HETATM

\* variant: no file is taken for an NMR ensemble
isNmr_Never(lines) == FALSE

isNmr(lines) ==
    \E i \in 1..Len(lines) :
        startsWith(lines[i], Str_EXPDTA) /\ includes(lines[i], Str_NMR)

\* the statements of the try block of PdbParser.parseAtomLines: substr, trim,
\* parseInt and parseFloat return '' or NaN on a short or garbled line, and
\* indexing past the end gives undefined; none of them throws
PdbTryThrows(line) == FALSE

\* the values the try block assigns from one atom line
PdbAtomFields(line) ==
    [atomType |-> trim(substr(line, 12, 4)),
     alt |-> trim(substr(line, 16, 1)),
     resType |-> trim(substr(line, 17, 3)),
     chain |-> charAt(line, 21),
     resNum |-> parseInt(substr(line, 22, 4)),
     insCode |-> substr(line, 26, 1),
     x |-> parseFloat(substr(line, 30, 7)),
     y |-> parseFloat(substr(line, 38, 7)),
     z |-> parseFloat(substr(line, 46, 7)),
     bfactor |-> parseFloat(substr(line, 60, 6)),
     elem |-> deleteNumbers(trim(substr(line, 76, 2)))]

\* variant: the fallback takes the first character of the atom name as is
ElemOrFromAtomType_KeepsDigits(elem, atomType) ==
    IF elem = <<>> THEN substr(trim(atomType), 0, 1) ELSE elem

\* if (elem === '') elem = deleteNumbers(_.trim(atomType)).substr(0, 1)
ElemOrFromAtomType(elem, atomType) ==
    IF elem = <<>> THEN substr(deleteNumbers(trim(atomType)), 0, 1) ELSE elem

\* the arguments of the addAtom call made for one PDB atom line
PdbAtomArgs(line) ==
    LET f == PdbAtomFields(line)
    IN  [f EXCEPT !.elem = ElemOrFromAtomType(f.elem, f.atomType)]

RECURSIVE PdbParseTitleFrom_FirstOnly(_, _)
\* variant: the title is the payload of the first TITLE line only
PdbParseTitleFrom_FirstOnly(lines, i) ==
    IF i > Len(lines) THEN <<>>
    ELSE IF substr(lines[i], 0, 5) = Str_TITLE THEN substring(lines[i], 10)
    ELSE PdbParseTitleFrom_FirstOnly(lines, i + 1)

RECURSIVE PdbParseTitleFrom(_, _)
PdbParseTitleFrom(lines, i) ==
    IF i > Len(lines) THEN <<>>
    ELSE (IF substr(lines[i], 0, 5) = Str_TITLE THEN substring(lines[i], 10)
          ELSE <<>>) \o PdbParseTitleFrom(lines, i + 1)

PdbParseTitle(lines) == PdbParseTitleFrom(lines, 1)

RECURSIVE PdbCollectModels(_, _, _, _)
\* the loop that fills models: an atom line goes to the current model, an END
\* line opens a new model, or ends the scan for an NMR file
PdbCollectModels(lines, i, models, nmr) ==
    IF i > Len(lines) THEN models
    ELSE IF isAtomLine(lines[i])
         THEN PdbCollectModels(lines, i + 1,
                  [models EXCEPT ![Len(models)] = Append(@, lines[i])], nmr)
         ELSE IF substr(lines[i], 0, 3) = Str_END
              THEN IF nmr THEN models
                   ELSE PdbCollectModels(lines, i + 1, Append(models, <<>>), nmr)
              ELSE PdbCollectModels(lines, i + 1, models, nmr)

\* variant: an empty last model is kept
PdbModels_KeepsLast(lines) ==
    PdbCollectModels(lines, 1, <<<<>>>>, isNmr(lines))

\* models as left by the loop and the pop of an empty last model
PdbModels(lines) ==
    LET models == PdbCollectModels(lines, 1, <<<<>>>>, isNmr(lines))
    IN  IF models[Len(models)] = <<>>
        THEN SubSeq(models, 1, Len(models) - 1)
        ELSE models

\* structureId of model i (from 0) among n
\* variant: the suffix counts from 0
PdbStructureId_ZeroBased(i, n) ==
    IF n > 1 THEN PdbId \o "[" \o ToString(i) \o "]" ELSE PdbId

PdbStructureId(i, n) ==
    IF n > 1 THEN PdbId \o "[" \o ToString(i + 1) \o "]" ELSE PdbId

Lines == Split(pdbText)

NoRec == [chain |-> <<>>, resNumEnd |-> NaN, ss |-> SsUnset, back |-> "ss"]

\* parsePdbData up to the loop over the models
PdbParsePdbData ==
    /\ parser = "pdb"
    /\ pc = "start"
    /\ IF Len(Lines) = 0
       THEN /\ parsingError' = "No atom lines"
            /\ pc' = "done"
       ELSE /\ parsingError' = parsingError
            /\ pc' = "model"
    /\ iModel' = 0
    /\ UNCHANGED <<parser, pdbText, iLine, error, hasSecondaryStructure>>
    /\ UNCHANGED <<cifVars, walkVars, soupVars>>
    /\ UNCHANGED <<viewsVars, widgetVars>>

\* one turn of the loop over the models: pushStructureId
PdbPushStructureId ==
    /\ parser = "pdb"
    /\ pc = "model"
    /\ LET models == PdbModels(Lines)
       IN  /\ iModel < Len(models)
           /\ structures' = SoupPushStructureId(
                  PdbStructureId(iModel, Len(models)), PdbParseTitle(Lines))
    /\ calls' = Append(calls, "pushStructureId")
    /\ pc' = "atoms"
    /\ iLine' = 0
    /\ UNCHANGED <<parser, pdbText, iModel, error, parsingError,
                   hasSecondaryStructure>>
    /\ UNCHANGED <<cifVars, walkVars, atoms, residues>>
    /\ UNCHANGED <<viewsVars, widgetVars>>

\* the loop over the models is over: parsePdbData returns
PdbReturn ==
    /\ parser = "pdb"
    /\ pc = "model"
    /\ iModel >= Len(PdbModels(Lines))
    /\ pc' = "done"
    /\ UNCHANGED <<parser, pdbText, iModel, iLine, error, parsingError,
                   hasSecondaryStructure>>
    /\ UNCHANGED <<cifVars, walkVars, soupVars>>
    /\ UNCHANGED <<viewsVars, widgetVars>>

\* one turn of the loop of PdbParser.parseAtomLines
PdbParseAtomLine ==
    /\ parser = "pdb"
    /\ pc = "atoms"
    /\ LET pdbLines == PdbModels(Lines)[iModel + 1]
       IN  /\ iLine < Len(pdbLines)
           /\ LET line == pdbLines[iLine + 1]
                  a == PdbAtomArgs(line) @@
                           [iStructure |-> SoupIStructure, line |-> line]
              IN  IF ~isAtomLine(line)
                  THEN UNCHANGED <<error, atoms, residues, calls>>
                  ELSE IF PdbTryThrows(line)
                       THEN /\ error' = "line " \o ToString(iLine)
                            /\ UNCHANGED <<atoms, residues, calls>>
                       ELSE /\ atoms' = Append(atoms, a)
                            /\ residues' = SoupAddResidue(a)
                            /\ calls' = Append(calls, "addAtom")
                            /\ error' = error
    /\ iLine' = iLine + 1
    /\ UNCHANGED <<parser, pdbText, pc, iModel, parsingError,
                   hasSecondaryStructure>>
    /\ UNCHANGED <<cifVars, walkVars, structures>>
    /\ UNCHANGED <<viewsVars, widgetVars>>

\* the chain, start and end columns of a HELIX or SHEET line
PdbHelixRecord(line) ==
    [chain |-> substr(line, 19, 1),
     resNumStart |-> parseInt(substr(line, 21, 4)),
     resNumEnd |-> parseInt(substr(line, 33, 4)),
     ss |-> "H"]

PdbSheetRecord(line) ==
    [chain |-> substr(line, 21, 1),
     resNumStart |-> parseInt(substr(line, 22, 4)),
     resNumEnd |-> parseInt(substr(line, 33, 4)),
     ss |-> "E"]

PdbIsSsLine(line) ==
    substr(line, 0, 5) = Str_HELIX \/ substr(line, 0, 5) = Str_SHEET

\* index (from 0) of the first HELIX or SHEET line at or after i, or -1
PdbNextSsLine(lines, i) ==
    LET at == {j \in i..(Len(lines) - 1) : PdbIsSsLine(lines[j + 1])}
    IN  IF at = {} THEN 0 - 1 ELSE CHOOSE j \in at : \A k \in at : j <= k

\* variant: the pass starts without the call of assignResidueProperties
PdbBeginSecondaryStructure_NoAssign ==
    /\ parser = "pdb"
    /\ pc = "atoms"
    /\ iLine >= Len(PdbModels(Lines)[iModel + 1])
    /\ pc' = "ss"
    /\ iLine' = 0
    /\ UNCHANGED <<parser, pdbText, iModel, error, parsingError,
                   hasSecondaryStructure>>
    /\ UNCHANGED <<cifVars, walkVars, soupVars>>
    /\ UNCHANGED <<viewsVars, widgetVars>>

\* parseAtomLines is over; parseSecondaryStructureLines starts
PdbBeginSecondaryStructure ==
    /\ parser = "pdb"
    /\ pc = "atoms"
    /\ iLine >= Len(PdbModels(Lines)[iModel + 1])
    /\ calls' = Append(calls, "assignResidueProperties")
    /\ pc' = "ss"
    /\ iLine' = 0
    /\ UNCHANGED <<parser, pdbText, iModel, error, parsingError,
                   hasSecondaryStructure>>
    /\ UNCHANGED <<cifVars, walkVars, structures, atoms, residues>>
    /\ UNCHANGED <<viewsVars, widgetVars>>

\* the turns of the line loop up to and including the next HELIX or SHEET
\* line: its columns are read and findResidueIndices is called
PdbSecondaryStructureLine ==
    /\ parser = "pdb"
    /\ pc = "ss"
    /\ LET j == PdbNextSsLine(Lines, iLine)
       IN  /\ j >= 0
           /\ LET line == Lines[j + 1]
                  r == IF substr(line, 0, 5) = Str_HELIX
                       THEN PdbHelixRecord(line)
                       ELSE PdbSheetRecord(line)
              IN  /\ rec' = [chain |-> r.chain, resNumEnd |-> r.resNumEnd,
                             ss |-> r.ss, back |-> "ss"]
                  /\ pending' = SoupFindResidueIndices(
                         SoupIStructure, r.chain, r.resNumStart)
           /\ iLine' = j + 1
    /\ hasSecondaryStructure' = TRUE
    /\ pc' = "for"
    /\ UNCHANGED <<parser, pdbText, iModel, error, parsingError>>
    /\ UNCHANGED <<cifVars, iRes, soupVars>>
    /\ UNCHANGED <<viewsVars, widgetVars>>

\* no HELIX or SHEET line is left: parseSecondaryStructureLines returns and
\* the loop over the models goes on
PdbEndSecondaryStructure ==
    /\ parser = "pdb"
    /\ pc = "ss"
    /\ PdbNextSsLine(Lines, iLine) < 0
    /\ pc' = "model"
    /\ iModel' = iModel + 1
    /\ iLine' = Len(Lines)
    /\ UNCHANGED <<parser, pdbText, error, parsingError,
                   hasSecondaryStructure>>
    /\ UNCHANGED <<cifVars, walkVars, soupVars>>
    /\ UNCHANGED <<viewsVars, widgetVars>>

---------------------------------------------------------------------------
(* CifParser                                                               *)

NullStr == <<"null">>

Str_dot == <<".">>
Str_question == <<"?">>
Str_hash == <<"#">>
Str_HOH == <<"H", "O", "H">>
Str_struct == <<"_", "s", "t", "r", "u", "c", "t">>
Str_struct_conf == <<"_", "s", "t", "r", "u", "c", "t", "_", "c", "o", "n", "f">>
Str_helix_id == <<"_", "s", "t", "r", "u", "c", "t", "_", "c", "o", "n", "f", ".", "p", "d", "b", "x", "_", "P", "D", "B", "_", "h", "e", "l", "i", "x", "_", "i", "d">>
Str_sheet_id == <<"_", "s", "t", "r", "u", "c", "t", "_", "s", "h", "e", "e", "t", "_", "r", "a", "n", "g", "e", ".", "s", "h", "e", "e", "t", "_", "i", "d">>
Str_struct_title == <<"_", "s", "t", "r", "u", "c", "t", ".", "t", "i", "t", "l", "e">>

\* removeQuotes(tokens[3]) reads the length of undefined when the line has
\* fewer than four tokens: the one statement of the try block that throws
CifTryThrows(tokens) == tokenAt(tokens, 3) = Undefined

\* variant: a sentinel line opens a residue only when the pair changed and
\* the residue is water
CifResolveResNum_Both(token, chain, entity, resType, authSeq, st) ==
    IF token = Str_dot
    THEN LET isSameChainAndEntity ==
                 chain = st.lastChain /\ entity = st.lastEntity
         IN  IF ~isSameChainAndEntity /\ resType = Str_HOH
             THEN [resNum |-> JsAddOne(st.nextResNum),
                   nextResNum |-> JsAddOne(st.nextResNum),
                   lastChain |-> chain, lastEntity |-> entity]
             ELSE [resNum |-> st.nextResNum, nextResNum |-> st.nextResNum,
                   lastChain |-> st.lastChain, lastEntity |-> st.lastEntity]
    ELSE [resNum |-> parseIntOf(authSeq),
          nextResNum |-> JsAddOne(parseIntOf(authSeq)),
          lastChain |-> chain, lastEntity |-> entity]

\* variant: an explicit line leaves the counter at its own number
CifResolveResNum_NoAdvance(token, chain, entity, resType, authSeq, st) ==
    IF token = Str_dot
    THEN LET isSameChainAndEntity ==
                 chain = st.lastChain /\ entity = st.lastEntity
         IN  IF ~isSameChainAndEntity \/ resType = Str_HOH
             THEN [resNum |-> JsAddOne(st.nextResNum),
                   nextResNum |-> JsAddOne(st.nextResNum),
                   lastChain |-> chain, lastEntity |-> entity]
             ELSE [resNum |-> st.nextResNum, nextResNum |-> st.nextResNum,
                   lastChain |-> st.lastChain, lastEntity |-> st.lastEntity]
    ELSE [resNum |-> parseIntOf(authSeq),
          nextResNum |-> parseIntOf(authSeq),
          lastChain |-> chain, lastEntity |-> entity]

\* variant: water is numbered like any other residue type
CifResolveResNum_NoWater(token, chain, entity, resType, authSeq, st) ==
    IF token = Str_dot
    THEN LET isSameChainAndEntity ==
                 chain = st.lastChain /\ entity = st.lastEntity
         IN  IF ~isSameChainAndEntity
             THEN [resNum |-> JsAddOne(st.nextResNum),
                   nextResNum |-> JsAddOne(st.nextResNum),
                   lastChain |-> chain, lastEntity |-> entity]
             ELSE [resNum |-> st.nextResNum, nextResNum |-> st.nextResNum,
                   lastChain |-> st.lastChain, lastEntity |-> st.lastEntity]
    ELSE [resNum |-> parseIntOf(authSeq),
          nextResNum |-> JsAddOne(parseIntOf(authSeq)),
          lastChain |-> chain, lastEntity |-> entity]

\* the residue numbering of one atom line: token is tokens[8], st the
\* threaded state (nextResNum, lastChain, lastEntity)
CifResolveResNum(token, chain, entity, resType, authSeq, st) ==
    IF token = Str_dot
    THEN LET isSameChainAndEntity ==
                 chain = st.lastChain /\ entity = st.lastEntity
         IN  IF ~isSameChainAndEntity \/ resType = Str_HOH
             THEN [resNum |-> JsAddOne(st.nextResNum),
                   nextResNum |-> JsAddOne(st.nextResNum),
                   lastChain |-> chain, lastEntity |-> entity]
             ELSE [resNum |-> st.nextResNum, nextResNum |-> st.nextResNum,
                   lastChain |-> st.lastChain, lastEntity |-> st.lastEntity]
    ELSE [resNum |-> parseIntOf(authSeq),
          nextResNum |-> JsAddOne(parseIntOf(authSeq)),
          lastChain |-> chain, lastEntity |-> entity]

\* the values the try block assigns from the tokens of one atom line
CifAtomFields(tokens, st) ==
    [elem |-> tokenAt(tokens, 2),
     atomType |-> removeQuotes(tokenAt(tokens, 3)),
     alt |-> IF tokenAt(tokens, 4) = Str_dot THEN <<>> ELSE tokenAt(tokens, 4),
     resType |-> tokenAt(tokens, 5),
     chain |-> tokenAt(tokens, 6),
     insCode |-> IF tokenAt(tokens, 9) = Str_question THEN <<>>
                 ELSE tokenAt(tokens, 9),
     x |-> parseFloatOf(tokenAt(tokens, 10)),
     y |-> parseFloatOf(tokenAt(tokens, 11)),
     z |-> parseFloatOf(tokenAt(tokens, 12)),
     bfactor |-> parseFloatOf(tokenAt(tokens, 14)),
     resNum |-> CifResolveResNum(tokenAt(tokens, 8), tokenAt(tokens, 6),
                                 tokenAt(tokens, 7), tokenAt(tokens, 5),
                                 tokenAt(tokens, 16), st).resNum]

\* the arguments of the addAtom call made for one mmCIF atom line
CifAtomArgs(tokens, st) ==
    LET f == CifAtomFields(tokens, st)
    IN  [f EXCEPT !.elem = ElemOrFromAtomType(f.elem, f.atomType)]

RECURSIVE CifParseTitleFrom_InlineOnly(_, _)
\* variant: only the one-line form is read
CifParseTitleFrom_InlineOnly(lines, i) ==
    IF i >= Len(lines) THEN <<>>
    ELSE LET line == lines[i + 1]
             rest == IF startsWith(line, Str_struct_title)
                     THEN trim(substring(line, Len(Str_struct_title)))
                     ELSE <<>>
         IN  IF rest # <<>> THEN removeQuotes(trim(rest))
             ELSE CifParseTitleFrom_InlineOnly(lines, i + 1)

RECURSIVE CifParseTitleFrom(_, _)
\* the loop of CifParser.parseTitle from index i (from 0)
CifParseTitleFrom(lines, i) ==
    IF i >= Len(lines) THEN <<>>
    ELSE LET line == lines[i + 1]
             rest == IF startsWith(line, Str_struct_title)
                     THEN trim(substring(line, Len(Str_struct_title)))
                     ELSE <<>>
         IN  IF rest # <<>> THEN removeQuotes(trim(rest))
             ELSE IF i > 0 /\ startsWith(lines[i], Str_struct_title)
                  THEN removeQuotes(trim(line))
                  ELSE CifParseTitleFrom(lines, i + 1)

CifParseTitle(lines) == CifParseTitleFrom(lines, 0)

\* index (from 0) of the first atom line at or after i, or -1
CifNextAtomLine(lines, i) ==
    LET at == {j \in i..(Len(lines) - 1) : isAtomLine(lines[j + 1])}
    IN  IF at = {} THEN 0 - 1 ELSE CHOOSE j \in at : \A k \in at : j <= k

RECURSIVE CifNextHelixRow(_, _, _)
\* the line loop of parseHelixLines from index i with isHelixLoop = inLoop:
\* the index of the next line handled as a data row, or -1 when the loop ends
CifNextHelixRow(lines, i, inLoop) ==
    IF i >= Len(lines) THEN 0 - 1
    ELSE LET line == lines[i + 1]
             isHelixLoop == inLoop \/ startsWith(line, Str_helix_id)
         IN  IF ~isHelixLoop THEN CifNextHelixRow(lines, i + 1, FALSE)
             ELSE IF startsWith(line, Str_hash) THEN 0 - 1
             ELSE IF ~startsWith(line, Str_struct_conf) THEN i
             ELSE CifNextHelixRow(lines, i + 1, TRUE)

RECURSIVE CifNextSheetRow(_, _, _)
\* the same for parseSheetLines; its test for a column-definition line
\* compares the first six characters of the line with '_struct'
CifNextSheetRow(lines, i, inLoop) ==
    IF i >= Len(lines) THEN 0 - 1
    ELSE LET line == lines[i + 1]
             isSheetLoop == inLoop \/ startsWith(line, Str_sheet_id)
         IN  IF ~isSheetLoop THEN CifNextSheetRow(lines, i + 1, FALSE)
             ELSE IF startsWith(line, Str_hash) THEN 0 - 1
             ELSE IF substr(line, 0, 6) # Str_struct THEN i
             ELSE CifNextSheetRow(lines, i + 1, TRUE)

CifHelixRecord(line) ==
    LET tokens == SplitTokens(line)
    IN  [chain |-> tokenAt(tokens, 4),
         resNumStart |-> parseIntOf(tokenAt(tokens, 5)),
         resNumEnd |-> parseIntOf(tokenAt(tokens, 9)),
         ss |-> "H"]

CifSheetRecord(line) ==
    LET tokens == SplitTokens(line)
    IN  [chain |-> tokenAt(tokens, 3),
         resNumStart |-> parseIntOf(tokenAt(tokens, 4)),
         resNumEnd |-> parseIntOf(tokenAt(tokens, 8)),
         ss |-> "E"]

\* parsePdbData with a parseAtomLines whose numbering state outlives the call
CifParsePdbData_KeepsNumbering ==
    /\ parser = "cif"
    /\ pc = "start"
    /\ IF Len(Lines) = 0
       THEN /\ parsingError' = "No atom lines"
            /\ pc' = "done"
            /\ UNCHANGED <<structures, calls>>
       ELSE /\ parsingError' = parsingError
            /\ structures' = SoupPushStructureId(PdbId, CifParseTitle(Lines))
            /\ calls' = Append(calls, "pushStructureId")
            /\ pc' = "atoms"
    /\ iLine' = 0
    /\ UNCHANGED <<nextResNum, lastChain, lastEntity>>
    /\ UNCHANGED <<parser, pdbText, iModel, error, hasSecondaryStructure>>
    /\ UNCHANGED <<isLoop, walkVars, atoms, residues>>
    /\ UNCHANGED <<viewsVars, widgetVars>>

\* parsePdbData up to the call of parseAtomLines: pushStructureId
CifParsePdbData ==
    /\ parser = "cif"
    /\ pc = "start"
    /\ IF Len(Lines) = 0
       THEN /\ parsingError' = "No atom lines"
            /\ pc' = "done"
            /\ UNCHANGED <<structures, calls>>
       ELSE /\ parsingError' = parsingError
            /\ structures' = SoupPushStructureId(PdbId, CifParseTitle(Lines))
            /\ calls' = Append(calls, "pushStructureId")
            /\ pc' = "atoms"
    /\ iLine' = 0
    /\ nextResNum' = Null
    /\ lastChain' = NullStr
    /\ lastEntity' = NullStr
    /\ UNCHANGED <<parser, pdbText, iModel, error, hasSecondaryStructure>>
    /\ UNCHANGED <<isLoop, walkVars, atoms, residues>>
    /\ UNCHANGED <<viewsVars, widgetVars>>

\* the body of the line loop with a counter that a failing line advances
CifAtomLineBody_FailureAdvances(j, line, tokens, n, args) ==
    IF CifTryThrows(tokens)
    THEN /\ error' = "line " \o ToString(j)
         /\ nextResNum' = JsAddOne(nextResNum)
         /\ UNCHANGED <<lastChain, lastEntity>>
         /\ UNCHANGED <<atoms, residues, calls>>
    ELSE /\ nextResNum' = n.nextResNum
         /\ lastChain' = n.lastChain
         /\ lastEntity' = n.lastEntity
         /\ atoms' = Append(atoms, args)
         /\ residues' = SoupAddResidue(args)
         /\ calls' = Append(calls, "addAtom")
         /\ error' = error

\* the body of the line loop with an error that an atom line read without
\* exception clears
CifAtomLineBody_ClearsError(j, line, tokens, n, args) ==
    IF CifTryThrows(tokens)
    THEN /\ error' = "line " \o ToString(j)
         /\ UNCHANGED <<nextResNum, lastChain, lastEntity>>
         /\ UNCHANGED <<atoms, residues, calls>>
    ELSE /\ nextResNum' = n.nextResNum
         /\ lastChain' = n.lastChain
         /\ lastEntity' = n.lastEntity
         /\ atoms' = Append(atoms, args)
         /\ residues' = SoupAddResidue(args)
         /\ calls' = Append(calls, "addAtom")
         /\ error' = ""

\* the body of the line loop for the atom line at index j, tokens being
\* its tokens and n its residue numbering
CifAtomLineBody(j, line, tokens, n, args) ==
    IF CifTryThrows(tokens)
    THEN /\ error' = "line " \o ToString(j)
         /\ UNCHANGED <<nextResNum, lastChain, lastEntity>>
         /\ UNCHANGED <<atoms, residues, calls>>
    ELSE /\ nextResNum' = n.nextResNum
         /\ lastChain' = n.lastChain
         /\ lastEntity' = n.lastEntity
         /\ atoms' = Append(atoms, args)
         /\ residues' = SoupAddResidue(args)
         /\ calls' = Append(calls, "addAtom")
         /\ error' = error

CifAtomLineAt(j, line, tokens, st) ==
    CifAtomLineBody(j, line, tokens,
        CifResolveResNum(tokenAt(tokens, 8), tokenAt(tokens, 6),
                         tokenAt(tokens, 7), tokenAt(tokens, 5),
                         tokenAt(tokens, 16), st),
        CifAtomArgs(tokens, st) @@
            [iStructure |-> SoupIStructure, line |-> line])

CifAtomLineStep(j) ==
    /\ j >= 0
    /\ iLine' = j + 1
    /\ CifAtomLineAt(j, Lines[j + 1], SplitTokens(Lines[j + 1]),
                     [nextResNum |-> nextResNum, lastChain |-> lastChain,
                      lastEntity |-> lastEntity])

\* the turns of the line loop of CifParser.parseAtomLines up to and
\* including the next atom line
CifParseAtomLine ==
    /\ parser = "cif"
    /\ pc = "atoms"
    /\ CifAtomLineStep(CifNextAtomLine(Lines, iLine))
    /\ UNCHANGED <<parser, pdbText, pc, iModel, parsingError,
                   hasSecondaryStructure>>
    /\ UNCHANGED <<isLoop, walkVars, structures>>
    /\ UNCHANGED <<viewsVars, widgetVars>>

\* parseAtomLines is over; parseSecondaryStructureLines starts and calls
\* parseHelixLines
CifBeginSecondaryStructure ==
    /\ parser = "cif"
    /\ pc = "atoms"
    /\ CifNextAtomLine(Lines, iLine) < 0
    /\ hasSecondaryStructure' = FALSE
    /\ calls' = Append(calls, "assignResidueProperties")
    /\ pc' = "helix"
    /\ iLine' = 0
    /\ isLoop' = FALSE
    /\ UNCHANGED <<parser, pdbText, iModel, error, parsingError>>
    /\ UNCHANGED <<nextResNum, lastChain, lastEntity, walkVars>>
    /\ UNCHANGED <<structures, atoms, residues>>
    /\ UNCHANGED <<viewsVars, widgetVars>>

\* parseHelixLines: the turns of the line loop up to and including the next
\* data row
CifHelixLine ==
    /\ parser = "cif"
    /\ pc = "helix"
    /\ LET j == CifNextHelixRow(Lines, iLine, isLoop)
       IN  /\ j >= 0
           /\ LET r == CifHelixRecord(Lines[j + 1])
              IN  /\ rec' = [chain |-> r.chain, resNumEnd |-> r.resNumEnd,
                             ss |-> r.ss, back |-> "helix"]
                  /\ pending' = SoupFindResidueIndices(
                         SoupIStructure, r.chain, r.resNumStart)
           /\ iLine' = j + 1
    /\ isLoop' = TRUE
    /\ hasSecondaryStructure' = TRUE
    /\ pc' = "for"
    /\ UNCHANGED <<parser, pdbText, iModel, error, parsingError>>
    /\ UNCHANGED <<nextResNum, lastChain, lastEntity, iRes, soupVars>>
    /\ UNCHANGED <<viewsVars, widgetVars>>

\* parseHelixLines returns; parseSheetLines starts
CifHelixEnd ==
    /\ parser = "cif"
    /\ pc = "helix"
    /\ CifNextHelixRow(Lines, iLine, isLoop) < 0
    /\ pc' = "sheet"
    /\ iLine' = 0
    /\ isLoop' = FALSE
    /\ UNCHANGED <<parser, pdbText, iModel, error, parsingError,
                   hasSecondaryStructure>>
    /\ UNCHANGED <<nextResNum, lastChain, lastEntity, walkVars, soupVars>>
    /\ UNCHANGED <<viewsVars, widgetVars>>

\* parseSheetLines: the turns of the line loop up to and including the next
\* data row
CifSheetLine ==
    /\ parser = "cif"
    /\ pc = "sheet"
    /\ LET j == CifNextSheetRow(Lines, iLine, isLoop)
       IN  /\ j >= 0
           /\ LET r == CifSheetRecord(Lines[j + 1])
              IN  /\ rec' = [chain |-> r.chain, resNumEnd |-> r.resNumEnd,
                             ss |-> r.ss, back |-> "sheet"]
                  /\ pending' = SoupFindResidueIndices(
                         SoupIStructure, r.chain, r.resNumStart)
           /\ iLine' = j + 1
    /\ isLoop' = TRUE
    /\ hasSecondaryStructure' = TRUE
    /\ pc' = "for"
    /\ UNCHANGED <<parser, pdbText, iModel, error, parsingError>>
    /\ UNCHANGED <<nextResNum, lastChain, lastEntity, iRes, soupVars>>
    /\ UNCHANGED <<viewsVars, widgetVars>>

\* parseSheetLines returns, and with it parsePdbData
CifReturn ==
    /\ parser = "cif"
    /\ pc = "sheet"
    /\ CifNextSheetRow(Lines, iLine, isLoop) < 0
    /\ pc' = "done"
    /\ UNCHANGED <<parser, pdbText, iModel, iLine, error, parsingError,
                   hasSecondaryStructure>>
    /\ UNCHANGED <<cifVars, walkVars, soupVars>>
    /\ UNCHANGED <<viewsVars, widgetVars>>

---------------------------------------------------------------------------
(* The walk over the residues, the same code in both parsers:              *)
(*   for (let iRes of findResidueIndices(...)) {                           *)
(*     residue.iRes = iRes                                                 *)
(*     while (residue.resNum <= resNumEnd && chain === residue.chain) {    *)
(*       residue.ss = code; residue.iRes = residue.iRes + 1 } }            *)

\* variant: the loop does not look at the chain
WalkGoesOn_AnyChain == JsLessEq(ResidueAt(iRes).resNum, rec.resNumEnd)

\* the condition of the while loop at the cursor
WalkGoesOn ==
    /\ JsLessEq(ResidueAt(iRes).resNum, rec.resNumEnd)
    /\ rec.chain = ResidueAt(iRes).chain

\* the for-of takes the next index: residue.iRes = iRes
WalkAnchor ==
    /\ pc = "for"
    /\ pending # <<>>
    /\ iRes' = Head(pending)
    /\ pending' = Tail(pending)
    /\ pc' = "walk"
    /\ UNCHANGED <<parser, pdbText, iModel, iLine, error, parsingError,
                   hasSecondaryStructure>>
    /\ UNCHANGED <<cifVars, rec, soupVars>>
    /\ UNCHANGED <<viewsVars, widgetVars>>

\* variant: once the for-of is exhausted the line loop is left as well
WalkDone_EndsPass ==
    /\ pc = "for"
    /\ pending = <<>>
    /\ pc' = rec.back
    /\ iLine' = Len(Lines)
    /\ UNCHANGED <<parser, pdbText, iModel, error, parsingError,
                   hasSecondaryStructure>>
    /\ UNCHANGED <<cifVars, walkVars, soupVars>>
    /\ UNCHANGED <<viewsVars, widgetVars>>

\* the for-of is exhausted: back to the line loop that runs it
WalkDone ==
    /\ pc = "for"
    /\ pending = <<>>
    /\ pc' = rec.back
    /\ UNCHANGED <<parser, pdbText, iModel, iLine, error, parsingError,
                   hasSecondaryStructure>>
    /\ UNCHANGED <<cifVars, walkVars, soupVars>>
    /\ UNCHANGED <<viewsVars, widgetVars>>

\* variant: a residue that already has a code keeps it
WalkPaint_KeepsFirst ==
    /\ pc = "walk"
    /\ WalkGoesOn
    /\ residues' = IF residues[iRes + 1].ss = SsUnset
                   THEN [residues EXCEPT ![iRes + 1].ss = rec.ss]
                   ELSE residues
    /\ calls' = Append(calls, "ss")
    /\ iRes' = iRes + 1
    /\ UNCHANGED <<parserVars, cifVars, rec, pending, structures, atoms>>
    /\ UNCHANGED <<viewsVars, widgetVars>>

\* one turn of the while loop: paint the residue at the cursor, move on
WalkPaint ==
    /\ pc = "walk"
    /\ WalkGoesOn
    /\ residues' = [residues EXCEPT ![iRes + 1].ss = rec.ss]
    /\ calls' = Append(calls, "ss")
    /\ iRes' = iRes + 1
    /\ UNCHANGED <<parserVars, cifVars, rec, pending, structures, atoms>>
    /\ UNCHANGED <<viewsVars, widgetVars>>

\* variant: after the first walk the other indices are dropped
WalkStop_FirstOnly ==
    /\ pc = "walk"
    /\ ~WalkGoesOn
    /\ pc' = "for"
    /\ pending' = <<>>
    /\ UNCHANGED <<parser, pdbText, iModel, iLine, error, parsingError,
                   hasSecondaryStructure>>
    /\ UNCHANGED <<cifVars, rec, iRes, soupVars>>
    /\ UNCHANGED <<viewsVars, widgetVars>>

\* the while condition fails: back to the for-of
WalkStop ==
    /\ pc = "walk"
    /\ ~WalkGoesOn
    /\ pc' = "for"
    /\ UNCHANGED <<parser, pdbText, iModel, iLine, error, parsingError,
                   hasSecondaryStructure>>
    /\ UNCHANGED <<cifVars, walkVars, soupVars>>
    /\ UNCHANGED <<viewsVars, widgetVars>>

Walk == WalkAnchor \/ WalkDone \/ WalkPaint \/ WalkStop

NextCif ==
    \/ CifParsePdbData
    \/ CifParseAtomLine
    \/ CifBeginSecondaryStructure
    \/ CifHelixLine
    \/ CifHelixEnd
    \/ CifSheetLine
    \/ CifReturn
    \/ Walk

NextPdb ==
    \/ PdbParsePdbData
    \/ PdbPushStructureId
    \/ PdbParseAtomLine
    \/ PdbBeginSecondaryStructure
    \/ PdbSecondaryStructureLine
    \/ PdbEndSecondaryStructure
    \/ PdbReturn
    \/ Walk

---------------------------------------------------------------------------
(* The views handlers of the server: the views of a structure file are     *)
(* kept in a JSON file beside it, its name computed by getViewsJson.       *)

Str_pdb == <<".", "p", "d", "b">>
Str_pdb1 == <<".", "p", "d", "b", "1">>
Str_cif == <<".", "c", "i", "f">>
Str_views_json == <<".", "v", "i", "e", "w", "s", ".", "j", "s", "o", "n">>

\* index (from 1) of the first occurrence of pattern in s, 0 if there is none
indexOf(s, pattern) ==
    LET at == {i \in 1..(Len(s) - Len(pattern) + 1) :
                   SubSeq(s, i, i + Len(pattern) - 1) = pattern}
    IN  IF at = {} THEN 0 ELSE CHOOSE i \in at : \A j \in at : i <= j

\* s.replace(pattern, replacement) with a string pattern: the first
\* occurrence only
replace(s, pattern, replacement) ==
    LET i == indexOf(s, pattern)
    IN  IF i = 0 THEN s
        ELSE SubSeq(s, 1, i - 1) \o replacement
                 \o SubSeq(s, i + Len(pattern), Len(s))

getViewsJson(path) ==
    replace(replace(replace(path, Str_pdb, <<>>), Str_pdb1, <<>>),
            Str_cif, <<>>) \o Str_views_json

\* fs.existsSync(name)
existsSync(name) == name \in DOMAIN viewFiles

\* the structure files of the requests, and the ids of the views
MaxViews == 2
ViewIds == 1..MaxViews

ViewPdbs ==
    {<<"x">> \o Str_pdb, <<"x">> \o Str_pdb1, <<"x">> \o Str_cif,
     <<"d", "/", "y">> \o Str_pdb1}

publicGetViewDicts ==
    /\ parser = "handlers"
    /\ \E path \in ViewPdbs :
           /\ pdb' = path
           /\ filename' = getViewsJson(path)
           /\ views' = IF existsSync(getViewsJson(path))
                       THEN viewFiles[getViewsJson(path)]
                       ELSE {}
    /\ UNCHANGED <<viewFiles, parserVars, cifVars, walkVars, soupVars>>
    /\ UNCHANGED widgetVars

publicSaveViewDicts ==
    /\ parser = "handlers"
    /\ \E path \in ViewPdbs, saved \in SUBSET ViewIds :
           /\ pdb' = path
           /\ filename' = getViewsJson(path)
           /\ viewFiles' = (getViewsJson(path) :> saved) @@ viewFiles
    /\ UNCHANGED <<views, parserVars, cifVars, walkVars, soupVars>>
    /\ UNCHANGED widgetVars

publicDeleteView ==
    /\ parser = "handlers"
    /\ \E path \in ViewPdbs, viewId \in ViewIds :
           /\ pdb' = path
           /\ filename' = getViewsJson(path)
           /\ viewFiles' =
                  IF existsSync(getViewsJson(path))
                  THEN (getViewsJson(path) :>
                            (viewFiles[getViewsJson(path)] \ {viewId}))
                           @@ viewFiles
                  ELSE viewFiles
    /\ UNCHANGED <<views, parserVars, cifVars, walkVars, soupVars>>
    /\ UNCHANGED widgetVars

NextViews ==
    \/ publicGetViewDicts
    \/ publicSaveViewDicts
    \/ publicDeleteView

---------------------------------------------------------------------------
(* AtomLabelsWidget (src/src/widgets.js).  A label is the atom it is on; a  *)
(* popup is the index its click handler captured when it was created and    *)
(* the label whose text draw last wrote into it.  Indices are 0-based.      *)

MaxLabels == 3

\* the atoms a label can be put on
MaxLabelAtoms == 3

LabelAtoms == 1..MaxLabelAtoms

NoLabel == 0

\* array.splice(i, 1): the element at index i removed, if there is one
splice(s, i) ==
    IF i >= 0 /\ i < Len(s)
    THEN SubSeq(s, 1, i) \o SubSeq(s, i + 2, Len(s))
    ELSE s

\* controller.delete_label(i): label i leaves the labels of the view
delete_label(i) == splice(labels, i)

\* new PopupText, with the click handler () => this.removePopup(i)
createPopup(i) == [i |-> i, html |-> NoLabel]

\* controller.make_label: a label on an atom that has none joins the view
make_label ==
    /\ parser = "widget"
    /\ Len(labels) < MaxLabels
    /\ \E a \in LabelAtoms :
           /\ \A k \in 1..Len(labels) : labels[k] # a
           /\ labels' = Append(labels, a)
    /\ clicked' = 0 - 1
    /\ thrown' = FALSE
    /\ UNCHANGED popups
    /\ UNCHANGED <<parserVars, cifVars, walkVars, soupVars, viewsVars>>

\* draw: popups are created for the labels beyond the popups (createPopup
\* with their index), the popups beyond the labels are removed from the
\* end (delete_label past the last label removes nothing), and every popup
\* gets the text of the label at its index
draw ==
    /\ parser = "widget"
    /\ popups' = [k \in 1..Len(labels) |->
                      [(IF k <= Len(popups) THEN popups[k]
                        ELSE createPopup(k - 1))
                       EXCEPT !.html = labels[k]]]
    /\ clicked' = 0 - 1
    /\ thrown' = FALSE
    /\ UNCHANGED labels
    /\ UNCHANGED <<parserVars, cifVars, walkVars, soupVars, viewsVars>>

\* a click on the popup at position j of the list runs its handler,
\* removePopup(i) with the index i the popup was created with:
\* this.popups[i].remove() throws when there is no popup at i; otherwise
\* the popup at i is spliced out and delete_label(i) called
click ==
    /\ parser = "widget"
    /\ \E j \in 0..(Len(popups) - 1) :
           LET i == popups[j + 1].i
           IN  /\ clicked' = j
               /\ IF i >= Len(popups)
                  THEN /\ thrown' = TRUE
                       /\ UNCHANGED <<popups, labels>>
                  ELSE /\ thrown' = FALSE
                       /\ popups' = splice(popups, i)
                       /\ labels' = delete_label(i)
    /\ UNCHANGED <<parserVars, cifVars, walkVars, soupVars, viewsVars>>

NextWidget ==
    \/ make_label
    \/ draw
    \/ click

---------------------------------------------------------------------------
(* Input texts.  A line is built from its fields, column by column.        *)

Spaces(n) == [i \in 1..n |-> " "]

PadRight(s, n) == s \o Spaces(n - Len(s))

PadLeft(s, n) == Spaces(n - Len(s)) \o s

RECURSIVE JoinLines(_)
JoinLines(ls) ==
    IF ls = <<>> THEN <<>>
    ELSE IF Len(ls) = 1 THEN ls[1]
    ELSE ls[1] \o <<"\n">> \o JoinLines(Tail(ls))

\* all sequences over S of length at most n
SeqsUpTo(S, n) == UNION {[1..k -> S] : k \in 0..n}

\* an ATOM / HETATM line of the PDB format from its fields
PdbAtomLine(f) ==
    PadRight(f.rec, 6) \o PadLeft(f.serial, 5) \o <<" ">> \o f.name \o f.alt
        \o PadRight(f.resType, 3) \o <<" ">> \o f.chain \o PadLeft(f.resNum, 4)
        \o f.insCode \o Spaces(3) \o PadLeft(f.x, 8) \o PadLeft(f.y, 8)
        \o PadLeft(f.z, 8) \o PadLeft(f.occupancy, 6) \o PadLeft(f.bfactor, 6)
        \o Spaces(10) \o f.elem

BaseAtom ==
    [rec |-> Str_ATOM, serial |-> <<"1">>, name |-> <<" ", "C", "A", " ">>,
     alt |-> <<" ">>, resType |-> <<"A", "L", "A">>, chain |-> <<"A">>,
     resNum |-> <<"1">>, insCode |-> <<" ">>,
     x |-> <<"1", ".", "5", "0", "0">>, y |-> <<"-", "2", ".", "0", "0", "0">>,
     z |-> <<"0", ".", "2", "5", "0">>, occupancy |-> <<"1", ".", "0", "0">>,
     bfactor |-> <<"1", "0", ".", "0", "0">>, elem |-> <<" ", "C">>]

\* HELIX and SHEET lines of the PDB format: chain, first and last residue
PdbHelixLine(chain, first, last) ==
    PadRight(Str_HELIX, 19) \o chain \o <<" ">> \o PadLeft(first, 4)
        \o Spaces(8) \o PadLeft(last, 4)

PdbSheetLine(chain, first, last) ==
    PadRight(Str_SHEET, 21) \o chain \o PadLeft(first, 4)
        \o Spaces(7) \o PadLeft(last, 4)

Line_AtomGood == PdbAtomLine(BaseAtom)
Line_HetatmGood ==
    PdbAtomLine([BaseAtom EXCEPT !.rec = Str_HETATM, !.resNum = <<"2">>])
Line_AtomShort == SubSeq(Line_AtomGood, 1, 20)
Line_AtomBadNumber == PdbAtomLine([BaseAtom EXCEPT !.x = <<"a", "b", "c">>])
Line_END == Str_END
Line_ENDMDL == Str_END \o <<"M", "D", "L">>
Line_ExpdtaNmr == PadRight(Str_EXPDTA, 10) \o <<"S", "O", "L", " ">> \o Str_NMR
Line_ExpdtaXray == PadRight(Str_EXPDTA, 10) \o <<"X", "-", "R", "A", "Y">>

MaxLines == 4
MaxAtomLines == 3

\* files of models: atom lines, terminators, EXPDTA headers, in any order
PdbStructLines ==
    {Line_AtomGood, Line_HetatmGood, Line_END, Line_ENDMDL, Line_ExpdtaNmr,
     Line_ExpdtaXray}

PdbStructTexts == {JoinLines(ls) : ls \in SeqsUpTo(PdbStructLines, MaxLines)}

\* files of atom lines, some of them cut short or with a garbled number
PdbCorruptTexts ==
    {JoinLines(ls) :
        ls \in SeqsUpTo({Line_AtomGood, Line_AtomShort, Line_AtomBadNumber},
                        MaxAtomLines)}

\* files of one atom line each, over atom names and element columns
ElemNames ==
    {<<" ", "C", "A", " ">>, <<"1", "H", "B", " ">>, <<" ", "H", "1", " ">>,
     <<"F", "E", " ", " ">>, <<" ", "1", "2", " ">>, <<" ", " ", " ", " ">>}

ElemColumns ==
    {<<" ", "C">>, <<"F", "E">>, <<"C", "1">>, <<"1", "2">>, <<" ", " ">>}

PdbElemTexts ==
    {PdbAtomLine([BaseAtom EXCEPT !.name = n, !.elem = e]) :
        n \in ElemNames, e \in ElemColumns}

\* files of one structure with one HELIX or SHEET record: the record line,
\* then one atom line per residue
MaxRes == 3
MaxResNum == 3

NumChars(n) == <<DigitChars[n + 1]>>

PdbResidueLines ==
    {PdbAtomLine([BaseAtom EXCEPT !.chain = c, !.resNum = NumChars(n)]) :
        c \in {<<"A">>, <<"B">>}, n \in 1..MaxResNum}

SsRecords ==
    {[ss |-> "H", chain |-> <<"A">>, first |-> 1, last |-> 2],
     [ss |-> "H", chain |-> <<"A">>, first |-> 2, last |-> 3],
     [ss |-> "H", chain |-> <<"B">>, first |-> 1, last |-> 3],
     [ss |-> "E", chain |-> <<"A">>, first |-> 1, last |-> 3],
     [ss |-> "E", chain |-> <<"B">>, first |-> 2, last |-> 2]}

PdbSsLineOf(r) ==
    IF r.ss = "H"
    THEN PdbHelixLine(r.chain, NumChars(r.first), NumChars(r.last))
    ELSE PdbSheetLine(r.chain, NumChars(r.first), NumChars(r.last))

PdbSsTexts ==
    {JoinLines(<<PdbSsLineOf(r)>> \o ls) :
        r \in SsRecords, ls \in SeqsUpTo(PdbResidueLines, MaxRes)}

\* files with TITLE lines among atom lines and terminators
Line_Title == PadRight(Str_TITLE, 10) \o <<"A", "B", " ">>
Line_TitleContinued == PadRight(Str_TITLE, 9) \o <<"2", "C", "D">>
Line_TitleShort == Str_TITLE

PdbTitleTexts ==
    {JoinLines(ls) :
        ls \in SeqsUpTo({Line_Title, Line_TitleContinued, Line_TitleShort,
                         Line_AtomGood, Line_END}, MaxLines)}

\* files of two models with a HELIX or SHEET record after the atom lines
PdbModelSsTexts ==
    {JoinLines(<<a, Line_END, b, PdbSsLineOf(r)>>) :
        a \in PdbResidueLines, b \in PdbResidueLines,
        r \in {q \in SsRecords : q.first = 1}}

\* files of one structure with two records, then the atom lines
PdbTwoSsTexts ==
    {JoinLines(<<PdbSsLineOf(r1), PdbSsLineOf(r2)>> \o ls) :
        r1 \in SsRecords, r2 \in {q \in SsRecords : q.last = 2},
        ls \in SeqsUpTo(PdbResidueLines, MaxRes - 1)}

RECURSIVE JoinTokens(_)
JoinTokens(ts) ==
    IF ts = <<>> THEN <<>>
    ELSE IF Len(ts) = 1 THEN ts[1]
    ELSE ts[1] \o <<" ">> \o JoinTokens(Tail(ts))

\* an atom line of the mmCIF _atom_site loop from its fields
CifAtomLine(f) ==
    JoinTokens(<<f.group, f.id, f.elem, f.name, f.alt, f.resType, f.chain,
                 f.entity, f.labelSeq, f.insCode, f.x, f.y, f.z, f.occupancy,
                 f.bfactor, f.charge, f.authSeq, f.resType, f.chain, f.name,
                 <<"1">>>>)

BaseCifAtom ==
    [group |-> Str_ATOM, id |-> <<"1">>, elem |-> <<"C">>,
     name |-> <<"C", "A">>, alt |-> Str_dot, resType |-> <<"A", "L", "A">>,
     chain |-> <<"A">>, entity |-> <<"1">>, labelSeq |-> Str_dot,
     insCode |-> Str_question, x |-> <<"1", ".", "5">>,
     y |-> <<"-", "2", ".", "0">>, z |-> <<"0", ".", "2", "5">>,
     occupancy |-> <<"1", ".", "0">>, bfactor |-> <<"1", "0", ".", "0">>,
     charge |-> Str_question, authSeq |-> <<"7">>]

\* the fields of the atom lines of the residue-numbering files: sentinel
\* lines over chain, entity and residue type, and explicitly numbered lines
\* whose label number (5, 8) differs from or equals (8) the author number
CifSentinelFields ==
    {[BaseCifAtom EXCEPT !.chain = c[1], !.entity = c[2], !.resType = t] :
        c \in {<<<<"A">>, <<"1">>>>, <<<<"B">>, <<"1">>>>,
               <<<<"A">>, <<"2">>>>},
        t \in {<<"A", "L", "A">>, Str_HOH}} \
    {[BaseCifAtom EXCEPT !.chain = <<"B">>, !.resType = Str_HOH],
     [BaseCifAtom EXCEPT !.entity = <<"2">>, !.resType = Str_HOH]}

CifExplicitFields ==
    {[BaseCifAtom EXCEPT !.labelSeq = <<"5">>, !.authSeq = <<"7">>]}

CifNumberingFields == CifSentinelFields \cup CifExplicitFields

\* an atom line of two tokens: removeQuotes(tokens[3]) throws on it
Line_CifShort == JoinTokens(<<Str_ATOM, <<"9">>>>)

CifNumberingTexts ==
    {JoinLines(ls) :
        ls \in SeqsUpTo({CifAtomLine(f) : f \in CifNumberingFields}
                            \cup {Line_CifShort}, MaxLines)}

\* files of one atom line each, over element and atom-name tokens
CifElemFields ==
    {[BaseCifAtom EXCEPT !.elem = e, !.name = n] :
        e \in {<<"C">>, <<"F", "E">>, Str_dot, Str_question},
        n \in {<<"C", "A">>, <<"\"", "H", "1", "\"">>, <<"1", "2">>}}

CifElemTexts == {CifAtomLine(f) : f \in CifElemFields}

\* files with a helix loop and a sheet loop after the atom lines
Line_HelixLoop == Str_helix_id
Line_HelixColumn == Str_struct_conf \o <<".", "b", "e", "g", "_", "l", "a", "b", "e", "l", "_", "s", "e", "q", "_", "i", "d">>
Line_HelixRow == <<"H", "E", "L", "X", "_", "P", " ", "H", "E", "L", "X", "_", "P", "1", " ", "1", " ", "A", "L", "A", " ", "A", " ", "7", " ", "?", " ", "A", "L", "A", " ", "A", " ", "8">>
Line_SheetLoop == Str_sheet_id
Line_SheetColumn == <<"_", "s", "t", "r", "u", "c", "t", "_", "s", "h", "e", "e", "t", "_", "r", "a", "n", "g", "e", ".", "i", "d">>
Line_SheetRow == <<"A", " ", "1", " ", "A", "L", "A", " ", "A", " ", "8", " ", "?", " ", "A", "L", "A", " ", "A", " ", "8">>

\* files with _struct.title records in both forms
MaxTitleLines == 3

Str_MyProtein == <<"M", "y", " ", "P", "r", "o", "t", "e", "i", "n">>
Line_CifData == <<"d", "a", "t", "a", "_", "1", "A", "B", "C">>
Line_CifTitleInline == Str_struct_title \o <<" ", "'">> \o Str_MyProtein \o <<"'">>
Line_CifTitleInlineDouble == Str_struct_title \o <<" ", " ", "\"", "A", "B", "\"", " ">>
Line_CifTitleInlineOpen == Str_struct_title \o <<" ", "A", "B", "'">>
Line_CifTitleBare == Str_struct_title
Line_CifTitleValue == <<"'">> \o Str_MyProtein \o <<"'">>
Line_CifTitleValuePadded == <<" ", "\"", "C", " ", "D", "\"", " ">>

CifTitleTexts ==
    {JoinLines(ls) :
        ls \in SeqsUpTo({Line_CifData, Line_CifTitleInline,
                         Line_CifTitleInlineDouble, Line_CifTitleInlineOpen,
                         Line_CifTitleBare, Line_CifTitleValue,
                         Line_CifTitleValuePadded}, MaxTitleLines)}

CifSsFields ==
    {[BaseCifAtom EXCEPT !.labelSeq = n, !.authSeq = n] :
        n \in {<<"7">>, <<"8">>}}

CifSsTexts ==
    {JoinLines(as \o hs \o ss) :
        as \in SeqsUpTo({CifAtomLine(f) : f \in CifSsFields}, 2),
        hs \in {<<>>, <<Line_HelixLoop, Line_HelixColumn, Str_hash>>,
                <<Line_HelixLoop, Line_HelixColumn, Line_HelixRow, Str_hash>>},
        ss \in {<<>>, <<Line_SheetLoop, Line_SheetColumn, Str_hash>>,
                <<Line_SheetLoop, Line_SheetColumn, Line_SheetRow, Str_hash>>}}

InitCommon ==
    /\ pc = "start"
    /\ iModel = 0
    /\ iLine = 0
    /\ error = ""
    /\ parsingError = ""
    /\ hasSecondaryStructure = FALSE
    /\ nextResNum = Null
    /\ lastChain = NullStr
    /\ lastEntity = NullStr
    /\ isLoop = FALSE
    /\ rec = NoRec
    /\ pending = <<>>
    /\ iRes = 0
    /\ structures = <<>>
    /\ atoms = <<>>
    /\ residues = <<>>
    /\ calls = <<>>
    /\ pdb = <<>>
    /\ filename = <<>>
    /\ views = {}
    /\ viewFiles = <<>>
    /\ labels = <<>>
    /\ popups = <<>>
    /\ clicked = 0 - 1
    /\ thrown = FALSE

InitPdb ==
    /\ parser = "pdb"
    /\ pdbText \in PdbStructTexts \cup PdbCorruptTexts \cup PdbElemTexts
                     \cup PdbSsTexts \cup PdbModelSsTexts \cup PdbTwoSsTexts
                     \cup PdbTitleTexts
    /\ InitCommon

InitCif ==
    /\ parser = "cif"
    /\ pdbText \in CifNumberingTexts \cup CifElemTexts \cup CifSsTexts
                     \cup CifTitleTexts
    /\ InitCommon

Init == InitPdb \/ InitCif

Next == NextPdb \/ NextCif

Spec == Init /\ [][Next]_vars

SpecPdb == InitPdb /\ [][NextPdb]_vars
\* no parser made yet
InitFair ==
    /\ parser = "none"
    /\ pdbText = <<>>
    /\ InitCommon

\* a parser is made for the text of a file and its parsePdbData called
NewParser ==
    /\ parser = "none"
    /\ \/ /\ parser' = "pdb"
          /\ pdbText' \in PdbSsTexts \cup PdbModelSsTexts \cup PdbTwoSsTexts
       \/ /\ parser' = "cif"
          /\ pdbText' \in CifSsTexts
    /\ UNCHANGED <<pc, iModel, iLine, error, parsingError,
                   hasSecondaryStructure>>
    /\ UNCHANGED <<cifVars, walkVars, soupVars>>
    /\ UNCHANGED <<viewsVars, widgetVars>>

NextFair == NewParser \/ Next

\* the statements of the parsers outside the walk
ParserTurn ==
    \/ NewParser
    \/ PdbParsePdbData
    \/ PdbPushStructureId
    \/ PdbParseAtomLine
    \/ PdbBeginSecondaryStructure
    \/ PdbSecondaryStructureLine
    \/ PdbEndSecondaryStructure
    \/ PdbReturn
    \/ CifParsePdbData
    \/ CifParseAtomLine
    \/ CifBeginSecondaryStructure
    \/ CifHelixLine
    \/ CifHelixEnd
    \/ CifSheetLine
    \/ CifReturn

\* the parser is one sequential call that runs on to its return: a step of
\* the walk that can be taken is taken, and outside the walk the parser
\* does not halt before parsePdbData has returned
FairSpec ==
    /\ InitFair
    /\ [][NextFair]_vars
    /\ WF_vars(Walk)
    /\ ([]<>(pc \in {"done", "for", "walk"}) \/ []<><<ParserTurn>>_vars)


SpecCif == InitCif /\ [][NextCif]_vars
\* the number of files handed to parsePdbData one after the other
MaxFiles == 2

\* the files of a further parse: one atom line, sentinel (residue or water)
\* or explicitly numbered
CifAgainTexts ==
    {CifAtomLine(f) :
        f \in {BaseCifAtom, [BaseCifAtom EXCEPT !.resType = Str_HOH]}
                  \cup CifExplicitFields}

\* parsePdbData is called again, with the text of another file
CifParseAgain ==
    /\ parser = "cif"
    /\ pc = "done"
    /\ Len(structures) >= 1
    /\ Len(structures) < MaxFiles
    /\ pdbText' \in CifAgainTexts
    /\ pc' = "start"
    /\ UNCHANGED <<parser, iModel, iLine, error, parsingError,
                   hasSecondaryStructure>>
    /\ UNCHANGED <<cifVars, walkVars, soupVars>>
    /\ UNCHANGED <<viewsVars, widgetVars>>

NextCifAgain == NextCif \/ CifParseAgain

SpecCifAgain == InitCif /\ [][NextCifAgain]_vars


\* the server with no request served yet and no views file on disk
InitViews ==
    /\ parser = "handlers"
    /\ pdbText = <<>>
    /\ InitCommon

SpecViews == InitViews /\ [][NextViews]_vars

\* the widget of a display whose current view has no label yet
InitWidget ==
    /\ parser = "widget"
    /\ pdbText = <<>>
    /\ InitCommon

SpecWidget == InitWidget /\ [][NextWidget]_vars

---------------------------------------------------------------------------
(* Vocabulary of the properties: the PDB format read by its own rules       *)
(* (columns counted from 1), independently of the parser's operators.      *)

Columns(line, a, b) == SubSeq(line, a, Min(b, Len(line)))

RECURSIVE StripLeft(_)
StripLeft(s) == IF s # <<>> /\ Head(s) = " " THEN StripLeft(Tail(s)) ELSE s

RECURSIVE StripRight(_)
StripRight(s) ==
    IF s # <<>> /\ s[Len(s)] = " " THEN StripRight(SubSeq(s, 1, Len(s) - 1))
    ELSE s

Strip(s) == StripRight(StripLeft(s))

RecordName(line) == Strip(Columns(line, 1, 6))

IsAtomRecord(line) == RecordName(line) \in {Str_ATOM, Str_HETATM}

IsTerminator(line) == RecordName(line) \in {Line_END, Line_ENDMDL}

IsCorruptAtomRecord(line) == line \in {Line_AtomShort, Line_AtomBadNumber}

HasNmrHeader == \E i \in 1..Len(Lines) : Lines[i] = Line_ExpdtaNmr

\* the source lines of the addAtom calls made so far, in call order
AddedLines == [k \in 1..Len(atoms) |-> atoms[k].line]

\* the source lines of the addAtom calls made into structure i (from 0)
AddedLinesOf(i) ==
    LET InI(a) == a.iStructure = i
        sel == SelectSeq(atoms, InI)
    IN  [k \in 1..Len(sel) |-> sel[k].line]

IsPrefix(s, t) == Len(s) <= Len(t) /\ SubSeq(t, 1, Len(s)) = s

\* index of the first terminator line of the file, Len + 1 if there is none
FirstTerminator ==
    LET at == {i \in 1..Len(Lines) : IsTerminator(Lines[i])}
    IN  IF at = {} THEN Len(Lines) + 1
        ELSE CHOOSE i \in at : \A j \in at : i <= j

AtomRecordsBeforeFirstTerminator ==
    SelectSeq(SubSeq(Lines, 1, FirstTerminator - 1), IsAtomRecord)

\* C1 (as claimed): a file of n atom lines of which exactly one is corrupted
\* (cut short, or with a garbled number) ends with n - 1 addAtom calls and a
\* non-empty error.
C1_OneCorruptLineDropped ==
    (/\ parser = "pdb"
     /\ pc = "done"
     /\ \A i \in 1..Len(Lines) : IsAtomRecord(Lines[i])
     /\ Cardinality({i \in 1..Len(Lines) : IsCorruptAtomRecord(Lines[i])}) = 1)
        => /\ Len(atoms) = Len(Lines) - 1
           /\ error # ""

\* C2: with an EXPDTA ... NMR line in the file, the scan stops at the first
\* END line: at most one structure is ever pushed, it has the unsuffixed id,
\* the atom lines added are those before the first terminator, and at the end
\* exactly one structure was pushed if there is such an atom line.
C2_NmrKeepsFirstModelOnly ==
    (parser = "pdb" /\ HasNmrHeader)
        => /\ Len(structures) <= 1
           /\ \A k \in 1..Len(structures) : structures[k].id = PdbId
           /\ IsPrefix(AddedLines, AtomRecordsBeforeFirstTerminator)
           /\ pc = "done" =>
                 /\ AddedLines = AtomRecordsBeforeFirstTerminator
                 /\ Len(structures) =
                        IF AtomRecordsBeforeFirstTerminator = <<>> THEN 0 ELSE 1

C2_Witness ==
    /\ parser = "pdb"
    /\ pc = "done"
    /\ HasNmrHeader
    /\ Len(structures) = 1
    /\ \E i \in (FirstTerminator + 1)..Len(Lines) : IsAtomRecord(Lines[i])

\* the atom and terminator lines of the file, in order
Skeleton ==
    LET Kept(line) == IsAtomRecord(line) \/ IsTerminator(line)
    IN  SelectSeq(Lines, Kept)

\* the file is made of blocks, each one or more atom lines then a terminator
MadeOfBlocks ==
    /\ Skeleton # <<>>
    /\ IsAtomRecord(Skeleton[1])
    /\ IsTerminator(Skeleton[Len(Skeleton)])
    /\ \A i \in 1..(Len(Skeleton) - 1) :
           ~(IsTerminator(Skeleton[i]) /\ IsTerminator(Skeleton[i + 1]))

NumBlocks == Cardinality({i \in 1..Len(Skeleton) : IsTerminator(Skeleton[i])})

\* the atom lines of block k (from 1): those with k - 1 terminators before
Block(k) ==
    LET sk == Skeleton
        idx == {i \in 1..Len(sk) :
                   /\ IsAtomRecord(sk[i])
                   /\ Cardinality({j \in 1..i : IsTerminator(sk[j])}) = k - 1}
        InBlock(i) == i \in idx
        pos == SelectSeq([i \in 1..Len(sk) |-> i], InBlock)
    IN  [n \in 1..Len(pos) |-> sk[pos[n]]]

IdSuffix == <<"[1]", "[2]", "[3]", "[4]">>

\* C3: without an NMR header, a file of N blocks (atom lines, then one
\* terminator) ends with N structures; with N >= 2 the k-th has the id
\* pdbId[k]; structure k received exactly the atom lines of block k; and a
\* parse that pushed one structure only pushed the bare pdbId.
C3_OneStructurePerBlock ==
    (parser = "pdb" /\ pc = "done")
        => /\ (Len(structures) = 1 => structures[1].id = PdbId)
           /\ (MadeOfBlocks /\ ~HasNmrHeader) =>
                 /\ Len(structures) = NumBlocks
                 /\ \A k \in 1..NumBlocks :
                        /\ NumBlocks >= 2 =>
                               structures[k].id = PdbId \o IdSuffix[k]
                        /\ AddedLinesOf(k - 1) = Block(k)

C3_Witness ==
    /\ parser = "pdb"
    /\ pc = "done"
    /\ MadeOfBlocks
    /\ ~HasNmrHeader
    /\ NumBlocks = 2
    /\ Len(structures) = 2
    /\ structures[2].id = "1abc[2]"

\* C4 (as claimed): a text without any atom line ends with no structure
\* pushed and the 'No atom lines' condition recorded, in both parsers.
C4_NoAtomLinesReported ==
    (pc = "done" /\ \A i \in 1..Len(Lines) : ~IsAtomRecord(Lines[i]))
        => /\ structures = <<>>
           /\ parsingError = "No atom lines"

\* the file holds exactly one HELIX or SHEET record, the first line
HasOneSsRecord ==
    /\ \E r \in SsRecords : Lines[1] = PdbSsLineOf(r)
    /\ \A i \in 2..Len(Lines) : RecordName(Lines[i]) \notin {Str_HELIX, Str_SHEET}

TheSsRecord == CHOOSE r \in SsRecords : Lines[1] = PdbSsLineOf(r)

IsPainted(i) == residues[i].ss # SsUnset

InRecordChain(r, i) == residues[i].chain = r.chain

\* residue i is reached by the walk of record r: a residue of the chain
\* numbered r.first lies at or before it, and from there to i the chain is
\* that of the record and no number is above r.last
ReachedByWalk(r, i) ==
    \E j \in 1..i :
        /\ InRecordChain(r, j)
        /\ residues[j].resNum = Num(r.first)
        /\ \A k \in j..i :
               InRecordChain(r, k) /\ residues[k].resNum.v <= r.last

\* C5 (as claimed): after the one HELIX or SHEET record of the file was
\* processed, a residue carries its code if and only if it is in the chain
\* of the record with a number from first to last.
C5_PaintsExactlyTheRange ==
    (parser = "pdb" /\ pc = "done" /\ HasOneSsRecord)
        => \A i \in 1..Len(residues) :
               (residues[i].ss = TheSsRecord.ss)
                   <=> /\ InRecordChain(TheSsRecord, i)
                       /\ TheSsRecord.first <= residues[i].resNum.v
                       /\ residues[i].resNum.v <= TheSsRecord.last

\* C5 (amended): a painted residue always carries the code of the record, is
\* in its chain and has no number above last; after the record was
\* processed the painted residues are exactly those the forward walk reaches
\* from a residue of the chain numbered first.
C5_PaintsTheWalkedRun ==
    (parser = "pdb" /\ HasOneSsRecord)
        => /\ \A i \in 1..Len(residues) :
                  IsPainted(i) =>
                      /\ residues[i].ss = TheSsRecord.ss
                      /\ InRecordChain(TheSsRecord, i)
                      /\ residues[i].resNum.v <= TheSsRecord.last
           /\ pc = "done" =>
                  \A i \in 1..Len(residues) :
                      IsPainted(i) <=> ReachedByWalk(TheSsRecord, i)

C5_Witness ==
    /\ parser = "pdb"
    /\ pc = "done"
    /\ HasOneSsRecord
    /\ Cardinality({i \in 1..Len(residues) : IsPainted(i)}) >= 2
    /\ \E i \in 1..Len(residues) :
           /\ ~IsPainted(i)
           /\ InRecordChain(TheSsRecord, i)
           /\ residues[i].resNum.v > TheSsRecord.last

\* C6 (as claimed): the element of every addAtom call is a non-empty string.
C6_ElementNeverEmpty ==
    \A k \in 1..Len(atoms) : atoms[k].elem # <<>>

RECURSIVE DropLeadingDigits(_)
DropLeadingDigits(s) ==
    IF s # <<>> /\ IsDigit(Head(s)) THEN DropLeadingDigits(Tail(s)) ELSE s

RECURSIVE WithoutFirstDigitRun(_)
WithoutFirstDigitRun(s) ==
    IF s = <<>> THEN <<>>
    ELSE IF IsDigit(Head(s)) THEN DropLeadingDigits(s)
    ELSE <<Head(s)>> \o WithoutFirstDigitRun(Tail(s))

RECURSIVE FirstNonDigit(_)
\* the first character of s that is no digit, as a string; '' if none
FirstNonDigit(s) ==
    IF s = <<>> THEN <<>>
    ELSE IF IsDigit(Head(s)) THEN FirstNonDigit(Tail(s))
    ELSE <<Head(s)>>

ElementColumns(line) == Strip(Columns(line, 77, 78))

AtomNameColumns(line) == Strip(Columns(line, 13, 16))

\* C7 (as claimed): the element handed to addAtom is the trimmed content of
\* columns 77-78 unchanged when they are not blank, else the first non-digit
\* character of the trimmed atom name.
C7_ElementVerbatim ==
    parser = "pdb" =>
        \A k \in 1..Len(atoms) :
            atoms[k].elem =
                IF ElementColumns(atoms[k].line) # <<>>
                THEN ElementColumns(atoms[k].line)
                ELSE FirstNonDigit(AtomNameColumns(atoms[k].line))

\* C7 (amended): the element handed to addAtom is the trimmed content of
\* columns 77-78 with its first run of digits removed when that is not
\* empty, else the first non-digit character of the trimmed atom name (the
\* empty string when the name has none).
C7_ElementDigitsStripped ==
    parser = "pdb" =>
        \A k \in 1..Len(atoms) :
            atoms[k].elem =
                IF WithoutFirstDigitRun(ElementColumns(atoms[k].line)) # <<>>
                THEN WithoutFirstDigitRun(ElementColumns(atoms[k].line))
                ELSE FirstNonDigit(AtomNameColumns(atoms[k].line))

C7_Witness ==
    /\ parser = "pdb"
    /\ \E k \in 1..Len(atoms) :
           /\ ElementColumns(atoms[k].line) = <<>>
           /\ AtomNameColumns(atoms[k].line) = <<"1", "H", "B">>
           /\ atoms[k].elem = <<"H">>
    /\ pc = "done"

\* the fields every mmCIF atom line of the input files was built from
CifAllFields == CifNumberingFields \cup CifElemFields \cup CifSsFields

CifFieldsOf(line) == CHOOSE f \in CifAllFields : CifAtomLine(f) = line

IsSentinel(f) == f.labelSeq = Str_dot

FieldInt(digits) == DigitsValue(digits, 0)

\* C8: two consecutive atoms from sentinel lines of the same chain and
\* entity, neither of them water, get the same residue number; a sentinel
\* line whose chain differs from that of such an atom gets that number + 1.
C8_SentinelRunSharesNumber ==
    parser = "cif" =>
        \A k \in 1..(Len(atoms) - 1) :
            LET f == CifFieldsOf(atoms[k].line)
                g == CifFieldsOf(atoms[k + 1].line)
            IN  (IsSentinel(f) /\ f.resType # Str_HOH /\ IsSentinel(g)) =>
                    /\ (/\ g.resType # Str_HOH
                        /\ g.chain = f.chain
                        /\ g.entity = f.entity)
                           => atoms[k + 1].resNum = atoms[k].resNum
                    /\ (g.chain # f.chain)
                           => /\ IsNum(atoms[k].resNum)
                              /\ atoms[k + 1].resNum =
                                     Num(atoms[k].resNum.v + 1)

C8_Witness ==
    /\ parser = "cif"
    /\ Len(atoms) = 3
    /\ \A k \in 1..3 : IsSentinel(CifFieldsOf(atoms[k].line))
    /\ CifFieldsOf(atoms[1].line) = CifFieldsOf(atoms[2].line)
    /\ CifFieldsOf(atoms[1].line).resType # Str_HOH
    /\ CifFieldsOf(atoms[3].line).chain # CifFieldsOf(atoms[1].line).chain
    /\ atoms[1].resNum = Num(1)
    /\ atoms[2].resNum = Num(1)
    /\ atoms[3].resNum = Num(2)

\* the atom line the loop of parseAtomLines has just handled (no exception)
CifJustAdded ==
    /\ parser = "cif"
    /\ pc = "atoms"
    /\ iLine >= 1
    /\ isAtomLine(Lines[iLine])
    /\ Lines[iLine] # Line_CifShort

\* C9 (as claimed): for a line whose token 8 is an explicit integer v, the
\* residue number handed to addAtom is v, and the threaded state becomes
\* nextResNum = v + 1, lastChain and lastEntity those of the line.
C9_ExplicitTokenAdopted ==
    (CifJustAdded /\ ~IsSentinel(CifFieldsOf(Lines[iLine])))
        => LET f == CifFieldsOf(Lines[iLine])
           IN  /\ atoms[Len(atoms)].resNum = Num(FieldInt(f.labelSeq))
               /\ nextResNum = Num(FieldInt(f.labelSeq) + 1)
               /\ lastChain = f.chain
               /\ lastEntity = f.entity

\* C9 (amended): for a line whose token 8 is not the sentinel, the residue
\* number handed to addAtom is the integer of token 16 (the author number),
\* and the threaded state becomes nextResNum = that number + 1, lastChain
\* and lastEntity those of the line.
C9_AuthorNumberAdopted ==
    (CifJustAdded /\ ~IsSentinel(CifFieldsOf(Lines[iLine])))
        => LET f == CifFieldsOf(Lines[iLine])
           IN  /\ atoms[Len(atoms)].line = Lines[iLine]
               /\ atoms[Len(atoms)].resNum = Num(FieldInt(f.authSeq))
               /\ nextResNum = Num(FieldInt(f.authSeq) + 1)
               /\ lastChain = f.chain
               /\ lastEntity = f.entity

C9_Witness ==
    /\ CifJustAdded
    /\ CifFieldsOf(Lines[iLine]).labelSeq = <<"5">>
    /\ CifFieldsOf(Lines[iLine]).authSeq = <<"7">>
    /\ atoms[Len(atoms)].resNum = Num(7)
    /\ nextResNum = Num(8)
    /\ Len(atoms) >= 2

\* C10 (as claimed): the residue number of an atom differs from that of the
\* atom before it only if the chain/entity pair changed, the residue type
\* is water, or the line carries an explicit residue-number token.
C10_NumberChangesOnlyOnBoundary ==
    parser = "cif" =>
        \A k \in 1..(Len(atoms) - 1) :
            LET f == CifFieldsOf(atoms[k].line)
                g == CifFieldsOf(atoms[k + 1].line)
            IN  atoms[k + 1].resNum # atoms[k].resNum =>
                    \/ g.chain # f.chain
                    \/ g.entity # f.entity
                    \/ g.resType = Str_HOH
                    \/ ~IsSentinel(g)

\* number of entries of the call log equal to name
CountCalls(name) == Cardinality({i \in 1..Len(calls) : calls[i] = name})

\* the store calls that may come right before a call, by its name
MayPrecede(name) ==
    CASE name = "pushStructureId" -> {"assignResidueProperties", "ss"}
      [] name = "addAtom" -> {"pushStructureId", "addAtom"}
      [] name = "assignResidueProperties" -> {"pushStructureId", "addAtom"}
      [] name = "ss" -> {"assignResidueProperties", "ss"}

\* C11: the store calls come structure by structure as pushStructureId, the
\* addAtom calls, assignResidueProperties, the ss writes; the log starts
\* with pushStructureId; a painted residue belongs to a structure whose
\* secondary-structure pass has begun, and no atom is added to a structure
\* after that; at the end the pass has run once per pushed structure.
C11_StoreCallsInOrder ==
    /\ calls # <<>> => calls[1] = "pushStructureId"
    /\ \A i \in 2..Len(calls) : calls[i - 1] \in MayPrecede(calls[i])
    /\ CountCalls("pushStructureId") = Len(structures)
    /\ CountCalls("addAtom") = Len(atoms)
    /\ CountCalls("assignResidueProperties") \in
           {Len(structures) - 1, Len(structures)}
    /\ \A i \in 1..Len(residues) :
           residues[i].ss # SsUnset =>
               residues[i].iStructure < CountCalls("assignResidueProperties")
    /\ \A k \in 1..Len(atoms) :
           /\ atoms[k].iStructure >= 0
           /\ atoms[k].iStructure >= CountCalls("assignResidueProperties")
                  => calls[Len(calls)] \in {"pushStructureId", "addAtom"}
    /\ pc = "done" =>
           CountCalls("assignResidueProperties") = Len(structures)

C11_Witness ==
    /\ parser = "pdb"
    /\ pc = "done"
    /\ Len(structures) = 2
    /\ calls = <<"pushStructureId", "addAtom", "assignResidueProperties",
                 "ss", "pushStructureId", "addAtom",
                 "assignResidueProperties", "ss">>

\* the file holds one model: no atom record comes after a terminator
IsSingleModelInput ==
    \A i \in 1..Len(Lines) : \A j \in (i + 1)..Len(Lines) :
        ~(IsTerminator(Lines[i]) /\ IsAtomRecord(Lines[j]))

AtomRecords == SelectSeq(Lines, IsAtomRecord)

\* C12: for a single-model PDB file without corrupted atom lines, the lines
\* handed to addAtom are, in file order, the ATOM and HETATM lines of the
\* file, each once, and no other line.
C12_OneAtomPerAtomRecord ==
    (/\ parser = "pdb"
     /\ IsSingleModelInput
     /\ \A i \in 1..Len(Lines) : ~IsCorruptAtomRecord(Lines[i]))
        => /\ IsPrefix(AddedLines, AtomRecords)
           /\ pc = "done" => AddedLines = AtomRecords

C12_Witness ==
    /\ parser = "pdb"
    /\ pc = "done"
    /\ IsSingleModelInput
    /\ Len(atoms) = 2
    /\ atoms[1].line = Line_HetatmGood
    /\ atoms[2].line = Line_AtomGood
    /\ \E i \in 1..Len(Lines) : Lines[i] = Line_ExpdtaXray
    /\ \E i \in 1..Len(Lines) : IsTerminator(Lines[i])

RECURSIVE TitlePayloadFrom(_)
\* the text from column 11 on of the TITLE lines from line i on, joined
TitlePayloadFrom(i) ==
    IF i > Len(Lines) THEN <<>>
    ELSE (IF Columns(Lines[i], 1, 5) = Str_TITLE
          THEN Columns(Lines[i], 11, Len(Lines[i]))
          ELSE <<>>) \o TitlePayloadFrom(i + 1)

\* C14: every structure pushed by PdbParser carries as title the text from
\* column 11 on of the TITLE lines of the file, joined in file order without
\* separator (empty without TITLE line).
C14_TitleIsJoinedPayloads ==
    parser = "pdb" =>
        \A k \in 1..Len(structures) : structures[k].title = TitlePayloadFrom(1)

C14_Witness ==
    /\ parser = "pdb"
    /\ Len(structures) = 1
    /\ structures[1].title = <<"A", "B", " ", "C", "D">>
    /\ Len(Lines) = 4
    /\ Lines[1] = Line_Title
    /\ Lines[2] = Line_TitleShort
    /\ Lines[3] = Line_TitleContinued

IsTitleKey(line) == Columns(line, 1, 13) = Str_struct_title

\* what follows the key on a _struct.title line, without surrounding blanks
InlineValue(line) == Strip(Columns(line, 14, Len(line)))

\* s without one pair of matching quotes around it
Unquote(s) ==
    IF Len(s) >= 2 /\ s[1] = s[Len(s)] /\ s[1] \in {"'", "\""}
    THEN SubSeq(s, 2, Len(s) - 1)
    ELSE s

\* line i gives the title: it is a key line with a value, or it follows a
\* key line
GivesTitle(i) ==
    \/ IsTitleKey(Lines[i]) /\ InlineValue(Lines[i]) # <<>>
    \/ i > 1 /\ IsTitleKey(Lines[i - 1])

FirstTitle ==
    LET at == {i \in 1..Len(Lines) : GivesTitle(i)}
    IN  IF at = {} THEN <<>>
        ELSE LET i == CHOOSE j \in at : \A k \in at : j <= k
             IN  IF IsTitleKey(Lines[i]) /\ InlineValue(Lines[i]) # <<>>
                 THEN Unquote(InlineValue(Lines[i]))
                 ELSE Unquote(Strip(Lines[i]))

IsSsDataRow(line) == line \in {Line_HelixRow, Line_SheetRow}

\* C15 (as claimed): after CifParser.parsePdbData, hasSecondaryStructure is
\* true if and only if the text holds a data row of the helix loop or of the
\* sheet loop; column-definition lines do not set it.
C15_FlagIffDataRow ==
    (parser = "cif" /\ pc = "done")
        => (hasSecondaryStructure
                <=> \E i \in 1..Len(Lines) : IsSsDataRow(Lines[i]))

\* the path without its final extension: all before the last dot
WithoutExtension(path) ==
    LET dots == {i \in 1..Len(path) : path[i] = "."}
    IN  IF dots = {} THEN path
        ELSE SubSeq(path, 1, (CHOOSE i \in dots : \A j \in dots : i >= j) - 1)

ViewsFileOf(path) == WithoutExtension(path) \o Str_views_json

\* C16 (as claimed): the views file of a request for a path ending in .pdb,
\* .pdb1 or .cif is that path with its final extension replaced by
\* '.views.json', and every views file on disk is the file of some
\* structure file.
C16_ViewsFileBesideStructure ==
    (parser = "handlers" /\ pdb # <<>>)
        => /\ filename = ViewsFileOf(pdb)
           /\ \A name \in DOMAIN viewFiles :
                  \E path \in ViewPdbs : name = ViewsFileOf(path)

\* residue i is a start residue of record r: its chain and number are
\* those the record starts at
IsStartOf(r, i) ==
    InRecordChain(r, i) /\ residues[i].resNum = Num(r.first)

\* residue i is reached by the walk anchored at the first start residue
ReachedFromFirstStart(r, i) ==
    \E j \in 1..i :
        /\ IsStartOf(r, j)
        /\ \A k \in 1..(j - 1) : ~IsStartOf(r, k)
        /\ \A k \in j..i :
               InRecordChain(r, k) /\ residues[k].resNum.v <= r.last

RecordsOfFile ==
    {r \in SsRecords : \E i \in 1..Len(Lines) : Lines[i] = PdbSsLineOf(r)}

\* a record has just been read and its start residue was not found
StartNotFound ==
    /\ pc \in {"ss", "helix", "sheet"}
    /\ pc' = "for"
    /\ pending' = <<>>

\* C18: a record whose start residue is not found changes the ss of no
\* residue and leaves the error string as it was, and the line loop goes on
\* with the next line; at the end of a PDB parse the start residues of every
\* record of the file are painted, whatever the records before it found.
C18_MissingStartChangesNothing ==
    /\ [][StartNotFound => residues' = residues /\ error' = error]_vars
    /\ [][(pc = "for" /\ pending = <<>>) =>
              /\ pc' = rec.back
              /\ iLine' = iLine
              /\ residues' = residues
              /\ error' = error]_vars
    /\ [](parser = "pdb" /\ pc = "done" =>
              \A r \in RecordsOfFile : \A i \in 1..Len(residues) :
                  IsStartOf(r, i) => IsPainted(i))

C18_Witness ==
    /\ parser = "pdb"
    /\ pc = "done"
    /\ Len(Lines) >= 3
    /\ Lines[1] = PdbSsLineOf([ss |-> "H", chain |-> <<"B">>, first |-> 1,
                               last |-> 3])
    /\ Lines[2] = PdbSsLineOf([ss |-> "H", chain |-> <<"A">>, first |-> 1,
                               last |-> 2])
    /\ residues # <<>>
    /\ \A i \in 1..Len(residues) : residues[i].chain = <<"A">>
    /\ \E i \in 1..Len(residues) : residues[i].ss = "H"
    /\ error = ""

\* the last atom or terminator line of the file is a terminator
EndsWithTerminator ==
    Skeleton # <<>> /\ IsTerminator(Skeleton[Len(Skeleton)])

EndsWithAtomRecord ==
    Skeleton # <<>> /\ IsAtomRecord(Skeleton[Len(Skeleton)])

\* C19: without NMR header, a file whose last terminator is followed by no
\* atom line gets one structure per terminator, none for the bucket the last
\* terminator opened (a file ending with atom lines gets one more); made of
\* N non-empty blocks it gets N structures, each with atoms.
C19_TrailingEmptyModelDiscarded ==
    (parser = "pdb" /\ pc = "done" /\ ~HasNmrHeader)
        => /\ EndsWithTerminator => Len(structures) = NumBlocks
           /\ EndsWithAtomRecord => Len(structures) = NumBlocks + 1
           /\ MadeOfBlocks =>
                  /\ Len(structures) = NumBlocks
                  /\ \A k \in 1..Len(structures) : AddedLinesOf(k - 1) # <<>>

C19_Witness ==
    /\ parser = "pdb"
    /\ pc = "done"
    /\ ~HasNmrHeader
    /\ MadeOfBlocks
    /\ IsTerminator(Lines[Len(Lines)])
    /\ NumBlocks = 2
    /\ Len(structures) = 2
    /\ Len(atoms) = 2

\* an atom was added by the step, from a sentinel line of residue type HOH
WaterAdded ==
    /\ parser = "cif"
    /\ Len(atoms') = Len(atoms) + 1
    /\ IsSentinel(CifFieldsOf(atoms'[Len(atoms')].line))
    /\ CifFieldsOf(atoms'[Len(atoms')].line).resType = Str_HOH

\* the counter plus one, the counter before the first atom counting as 0
CounterPlusOne ==
    IF nextResNum = Null THEN Num(1) ELSE Num(nextResNum.v + 1)

\* C20: an atom from a sentinel line of residue type HOH gets the counter
\* left by the atoms before it plus one, which becomes the counter; two
\* consecutive atoms from such lines never have the same residue number.
C20_WaterOpensResidue ==
    /\ [][WaterAdded =>
              /\ atoms'[Len(atoms')].resNum = CounterPlusOne
              /\ nextResNum' = CounterPlusOne]_vars
    /\ [](parser = "cif" =>
              \A k \in 1..(Len(atoms) - 1) :
                  LET f == CifFieldsOf(atoms[k].line)
                      g == CifFieldsOf(atoms[k + 1].line)
                  IN  (/\ IsSentinel(f) /\ f.resType = Str_HOH
                       /\ IsSentinel(g) /\ g.resType = Str_HOH)
                          => atoms[k + 1].resNum # atoms[k].resNum)

C20_Witness ==
    /\ parser = "cif"
    /\ Len(atoms) = 2
    /\ CifFieldsOf(atoms[1].line) = CifFieldsOf(atoms[2].line)
    /\ IsSentinel(CifFieldsOf(atoms[1].line))
    /\ CifFieldsOf(atoms[1].line).resType = Str_HOH
    /\ atoms[1].resNum = Num(1)
    /\ atoms[2].resNum = Num(2)

\* the atoms that are the first added by their call of parseAtomLines: the
\* first atom of each structure
IsFirstAtomOfFile(k) ==
    k = 1 \/ atoms[k - 1].iStructure # atoms[k].iStructure

\* C21 (as claimed): the first atom of every file parsed by CifParser gets
\* residue number 1 when its token 8 is the sentinel, whatever its chain,
\* entity and residue type, and the integer of token 8 when that token is
\* explicit; nothing is carried over from the file parsed before.
C21_FirstAtomOneOrExplicit ==
    parser = "cif" =>
        \A k \in 1..Len(atoms) :
            IsFirstAtomOfFile(k) =>
                LET f == CifFieldsOf(atoms[k].line)
                IN  atoms[k].resNum =
                        IF IsSentinel(f) THEN Num(1)
                        ELSE Num(FieldInt(f.labelSeq))

\* C21 (amended): the first atom of every file parsed by CifParser gets
\* residue number 1 when its token 8 is the sentinel, whatever its chain,
\* entity and residue type, and the integer of token 16 (the author number)
\* when token 8 is not the sentinel; nothing is carried over from the file
\* parsed before.
C21_FirstAtomOneOrAuthor ==
    parser = "cif" =>
        \A k \in 1..Len(atoms) :
            IsFirstAtomOfFile(k) =>
                LET f == CifFieldsOf(atoms[k].line)
                IN  atoms[k].resNum =
                        IF IsSentinel(f) THEN Num(1)
                        ELSE Num(FieldInt(f.authSeq))

\* a second file whose first line is a sentinel line of the chain and
\* entity of the explicitly numbered atom that ended the first file
C21_Witness ==
    /\ parser = "cif"
    /\ pc = "done"
    /\ Len(structures) = 2
    /\ Len(atoms) = 2
    /\ atoms[1].iStructure = 0
    /\ atoms[2].iStructure = 1
    /\ ~IsSentinel(CifFieldsOf(atoms[1].line))
    /\ atoms[1].resNum = Num(7)
    /\ CifFieldsOf(atoms[2].line) = BaseCifAtom
    /\ atoms[2].resNum = Num(1)

\* an mmCIF atom line too short to have an atom name (token 3): reading it
\* raises the exception
CifLineFails(line) ==
    /\ \/ substr(line, 0, 4) = Str_ATOM
       \/ substr(line, 0, 6) = Str_HETATM
    /\ Len(SplitTokens(line)) < 4

\* the number of lines of the file the loop of parseAtomLines has been over
CifLinesScanned ==
    IF pc = "start" THEN 0 ELSE IF pc = "atoms" THEN iLine ELSE Len(Lines)

\* the 0-based indices of the failing lines among them
CifFailedSoFar == {i \in 0..(CifLinesScanned - 1) : CifLineFails(Lines[i + 1])}

\* C22: the error string of a CifParser is empty while no atom line has
\* failed, and otherwise 'line ' followed by the 0-based index of the last
\* failing line read so far; an atom line read after it without exception
\* leaves the string as it is.
C22_ErrorNamesLastFailingLine ==
    parser = "cif" =>
        error = IF CifFailedSoFar = {} THEN ""
                ELSE "line " \o ToString(
                         CHOOSE m \in CifFailedSoFar :
                             \A i \in CifFailedSoFar : i <= m)

\* two failing lines, then an atom line that is added
C22_Witness ==
    /\ parser = "cif"
    /\ pc = "done"
    /\ Len(Lines) = 3
    /\ CifLineFails(Lines[1])
    /\ CifLineFails(Lines[2])
    /\ Len(atoms) = 1
    /\ atoms[1].line = Lines[3]
    /\ error = "line 1"

\* C23: every structure PdbParser.parsePdbData has pushed when it returns
\* holds the atoms of at least one atom line; an empty model (a terminator
\* at the head of the file, or right after another terminator) gets no
\* structure.
C23_NoStructureForEmptyModel ==
    (parser = "pdb" /\ pc = "done")
        => \A k \in 1..Len(structures) : AddedLinesOf(k - 1) # <<>>

\* the step is a turn of the loop of parseAtomLines on a failing atom line
CifFailingLineRead ==
    /\ parser = "cif"
    /\ pc = "atoms"
    /\ pc' = "atoms"
    /\ iLine' >= 1
    /\ CifLineFails(Lines[iLine'])

\* the atom lines read so far, the failing ones left out
CifGoodLinesSoFar ==
    LET Good(line) == isAtomLine(line) /\ ~CifLineFails(line)
    IN  SelectSeq(SubSeq(Lines, 1, CifLinesScanned), Good)

\* the residue numbers the numbering rule gives the lines from the k-th on,
\* one after the other, st being the numbering state before the k-th
RECURSIVE CifNumbersFrom(_, _, _)
CifNumbersFrom(lines, k, st) ==
    IF k > Len(lines) THEN <<>>
    ELSE LET tokens == SplitTokens(lines[k])
             n == CifResolveResNum(tokenAt(tokens, 8), tokenAt(tokens, 6),
                                   tokenAt(tokens, 7), tokenAt(tokens, 5),
                                   tokenAt(tokens, 16), st)
         IN  <<n.resNum>> \o
                 CifNumbersFrom(lines, k + 1,
                     [nextResNum |-> n.nextResNum, lastChain |-> n.lastChain,
                      lastEntity |-> n.lastEntity])

\* C24: the turn of the loop of CifParser.parseAtomLines on a failing atom
\* line sets the error string to the index of the line and changes neither
\* the store (no addAtom) nor nextResNum, lastChain and lastEntity; the
\* atoms added are those of the other atom lines, with the residue numbers
\* these lines get in a file without the failing lines.
C24_FailingLineLeavesNoTrace ==
    /\ [][CifFailingLineRead =>
              /\ error' = "line " \o ToString(iLine' - 1)
              /\ UNCHANGED <<nextResNum, lastChain, lastEntity>>
              /\ UNCHANGED soupVars]_vars
    /\ [](parser = "cif" =>
              /\ AddedLines = CifGoodLinesSoFar
              /\ [k \in 1..Len(atoms) |-> atoms[k].resNum] =
                     CifNumbersFrom(CifGoodLinesSoFar, 1,
                         [nextResNum |-> Null, lastChain |-> NullStr,
                          lastEntity |-> NullStr]))

\* a failing line between two sentinel lines of one residue: the second
\* atom has the number of the first
C24_Witness ==
    /\ parser = "cif"
    /\ pc = "done"
    /\ Len(Lines) = 3
    /\ CifLineFails(Lines[2])
    /\ Lines[1] = CifAtomLine(BaseCifAtom)
    /\ Lines[3] = CifAtomLine(BaseCifAtom)
    /\ Len(atoms) = 2
    /\ atoms[1].resNum = Num(1)
    /\ atoms[2].resNum = Num(1)
    /\ error = "line 1"

\* the step is a turn of the while loop of a walk
WalkTurn == pc = "walk" /\ pc' = "walk"

CifHelixRowRecord == [ss |-> "H", chain |-> <<"A">>, first |-> 7, last |-> 8]

CifSheetRowRecord == [ss |-> "E", chain |-> <<"A">>, first |-> 8, last |-> 8]

IsPdbSsLine(line) == \E r \in SsRecords : line = PdbSsLineOf(r)

AppliedRecords ==
    IF parser = "pdb"
    THEN LET recLines == SelectSeq(Lines, IsPdbSsLine)
         IN  [k \in 1..Len(recLines) |->
                 CHOOSE r \in SsRecords : recLines[k] = PdbSsLineOf(r)]
    ELSE (IF \E k \in 1..Len(Lines) : Lines[k] = Line_HelixRow
          THEN <<CifHelixRowRecord>> ELSE <<>>)
         \o (IF \E k \in 1..Len(Lines) : Lines[k] = Line_SheetRow
             THEN <<CifSheetRowRecord>> ELSE <<>>)

\* residue i is in the range of record r
InRange(r, i) ==
    /\ InRecordChain(r, i)
    /\ IsNum(residues[i].resNum)
    /\ r.first <= residues[i].resNum.v
    /\ residues[i].resNum.v <= r.last

\* the code of the last of the records recs that Hits(r, i) residue i, or
\* the code a residue starts with when none does
LastCode(recs, i, Hits(_, _)) ==
    LET hits == {k \in 1..Len(recs) : Hits(recs[k], i)}
    IN  IF hits = {} THEN SsUnset
        ELSE recs[CHOOSE m \in hits : \A k \in hits : k <= m].ss

\* C26 (as claimed): at the end of the parse of a file of one structure, a
\* residue within the range of some record has the code of the last applied
\* record whose range it is in (PDB: the later in file order; mmCIF: the
\* sheet row, applied after the helix row); a residue in no range has the
\* code it started with.
C26_LastRangeWins ==
    (parser \in {"pdb", "cif"} /\ pc = "done" /\ Len(structures) = 1)
        => \A i \in 1..Len(residues) :
               residues[i].ss = LastCode(AppliedRecords, i, InRange)

\* C26 (amended): at the end of the parse of a file of one structure, a
\* residue reached by the walk of some record has the code of the last
\* applied record whose walk reaches it (PDB: the later in file order;
\* mmCIF: the sheet row, applied after the helix row); a residue no walk
\* reaches has the code it started with.
C26_LastWalkWins ==
    (parser \in {"pdb", "cif"} /\ pc = "done" /\ Len(structures) = 1)
        => \A i \in 1..Len(residues) :
               residues[i].ss = LastCode(AppliedRecords, i, ReachedByWalk)

\* a helix over residues 1 and 2 of chain B, then a sheet over residue 2
C26_Witness ==
    /\ parser = "pdb"
    /\ pc = "done"
    /\ Len(structures) = 1
    /\ AppliedRecords =
           <<[ss |-> "H", chain |-> <<"B">>, first |-> 1, last |-> 3],
             [ss |-> "E", chain |-> <<"B">>, first |-> 2, last |-> 2]>>
    /\ Len(residues) = 2
    /\ ReachedByWalk(AppliedRecords[1], 2)
    /\ ReachedByWalk(AppliedRecords[2], 2)
    /\ residues[1].ss = "H"
    /\ residues[2].ss = "E"

\* the step is a click on the popup at position clicked', which shows the
\* text of the label at that position
ClickOnShownLabel ==
    /\ parser = "widget"
    /\ clicked' >= 0
    /\ clicked' < Len(popups)
    /\ clicked' < Len(labels)
    /\ popups[clicked' + 1].html = labels[clicked' + 1]

\* C27: a click on the popup shown for label j removes that popup and no
\* other from the list of popups, deletes label j and no other from the
\* labels of the view, and raises no exception for want of a popup at the
\* index it addresses.
C27_ClickRemovesItsPopupAndLabel ==
    [][ClickOnShownLabel =>
           /\ ~thrown'
           /\ popups' = splice(popups, clicked')
           /\ labels' = splice(labels, clicked')]_vars

=============================================================================
